---- MODULE Spec2Model ----
(***************************************************************************)
(* A model of pizzafest: the bid war matcher (bidwar.Collection), the      *)
(* donation table (googlesheets.DonationTable), the tallier                *)
(* (bidwar.Tallier) and the bot's dispatch layer (bot.go).                 *)
(*                                                                         *)
(* Strings are sequences of one-character strings, so that case folding,   *)
(* concatenation and regexp matching are computed, not assumed.            *)
(***************************************************************************)
EXTENDS Integers, Sequences, FiniteSets, TLC

VARIABLES
    bidwars,        \* bot.bidwars / Tallier.collection: the Collection, read-only after load
    call,           \* the pending call of a function under test: its arguments
    ret,            \* what that call returned: <<>> before it returns, <<outcome>> after
    now,            \* time.Now(), in seconds since the bot started
    ticks,          \* how many times the clock has advanced
    communityGifts, \* bot.communityGifts: Owner -> time of the last community gift
    pendingBids,    \* bot.pendingBids: lower-cased name -> bidPreference
    table,          \* the rows of the tracker sheet, as GetTable returns them
    handlers,       \* the events dispatched so far, each with the position of its handler
    chat,           \* the messages passed to ircClient.Say, oldest first
    limiter,        \* bot.chatLimiter: its tokens and the time they were last updated
    markLog,        \* history: every updateCommunityGift call, oldest first
    prefLog         \* history: every rememberPref call, oldest first

vars == <<bidwars, call, ret, now, ticks, communityGifts, pendingBids, table,
          handlers, chat, limiter, markLog, prefLog>>

\* The variables of the bot, which a call of a function under test leaves alone.
botVars == <<now, ticks, communityGifts, pendingBids, table, handlers, chat, limiter, markLog, prefLog>>

----------------------------------------------------------------------------
(* Bounds of the model.                                                    *)

\* Most pieces (of MsgPieces) a message is made of.
MaxMsgLen == 3
\* Most rows below the header in a donation table handed to makeChoice.
MaxSnapshotRows == 3
\* Most events dispatched to the bot in one run.
MaxEvents == 3
\* Most advances of the clock in one run.
MaxTicks == 2
\* The most columns of the bid war summary of the sheet.
MaxCols == 3
\* The number of options of the large contest.
MaxOptions == 7
\* The number of options of the contests that are ranked and described.
MaxRanked == 4
\* Most calls of say in one run.
MaxSays == 15
\* Most donations in one response to a donation poller.
MaxResponse == 3

\* The lines of the tip file when the Watcher is made, and at most.
MaxInitialLines == 1
MaxFileLines == 3

----------------------------------------------------------------------------
(* Strings.                                                                *)

LowerChars == <<"a","b","c","d","e","f","g","h","i","j","k","l","m",
                "n","o","p","q","r","s","t","u","v","w","x","y","z">>
UpperChars == <<"A","B","C","D","E","F","G","H","I","J","K","L","M",
                "N","O","P","Q","R","S","T","U","V","W","X","Y","Z">>
DigitChars == <<"0","1","2","3","4","5","6","7","8","9">>

Range(f) == {f[i] : i \in DOMAIN f}

\* The sequences over S of length at most n.
SeqsUpTo(S, n) == UNION {[1..k -> S] : k \in 0..n}

\* The lower-case letter of each upper-case letter.
LowerOf == [c \in Range(UpperChars) |-> LowerChars[CHOOSE i \in DOMAIN UpperChars : UpperChars[i] = c]]

\* unicode.ToLower on an ASCII character.
ToLowerChar(c) == IF c \in DOMAIN LowerOf THEN LowerOf[c] ELSE c

\* strings.ToLower
ToLower(s) == [i \in 1..Len(s) |-> ToLowerChar(s[i])]

\* strings.EqualFold
EqualFold(s, t) ==
    /\ Len(s) = Len(t)
    /\ \A i \in 1..Len(s) : ToLowerChar(s[i]) = ToLowerChar(t[i])

\* The class \w as it would be without the digits.
WordCharsNoDigits == Range(LowerChars) \cup Range(UpperChars) \cup {"_"}

\* The regexp class \w: ASCII letters, digits and the underscore.
WordChars == Range(LowerChars) \cup Range(UpperChars) \cup Range(DigitChars) \cup {"_"}
IsWordChar(c) == c \in WordChars

\* The regexp assertion \b at offset p (0..Len(msg)) of msg: exactly one of
\* the characters before and after the offset is a word character.
WordBoundaryAt(msg, p) ==
    LET before == p >= 1 /\ IsWordChar(msg[p])
        after  == p < Len(msg) /\ IsWordChar(msg[p + 1])
    IN  before # after

\* Whether the literal pat occurs in msg at 0-based offset i, ignoring case.
LiteralAt(pat, msg, i) ==
    /\ i + Len(pat) <= Len(msg)
    /\ \A k \in 1..Len(pat) : ToLowerChar(msg[i + k]) = ToLowerChar(pat[k])

\* Whether the alias regexp (?i)\bpat\b matches msg at 0-based offset i.
AliasMatchesAt(pat, msg, i) ==
    /\ LiteralAt(pat, msg, i)
    /\ WordBoundaryAt(msg, i)
    /\ WordBoundaryAt(msg, i + Len(pat))

\* alias.FindStringIndex(msg)[0]: the start of the leftmost match, -1 for no match (nil).
FindStringIndex(pat, msg) ==
    LET starts == {i \in 0..Len(msg) : AliasMatchesAt(pat, msg, i)}
    IN  IF starts = {} THEN -1
        ELSE CHOOSE i \in starts : \A j \in starts : i <= j

\* The "random" of the random directive.
RandomWord == <<"r","a","n","d","o","m">>

\* randomDirective.MatchString(msg): (?i)random anywhere in msg.
RandomDirectiveMatches(msg) == \E i \in 0..Len(msg) : LiteralAt(RandomWord, msg, i)

----------------------------------------------------------------------------
(* The bid war Collection.                                                 *)

FromChatMessage == 0
FromDonationMessage == 1
FromSubMessage == 2
FromBidCommand == 3
ChoiceReasons == {FromChatMessage, FromDonationMessage, FromSubMessage, FromBidCommand}

\* Option{}: the zero Option.
ZeroOption == [DisplayName |-> <<>>, ShortCode |-> <<>>, Aliases |-> <<>>, Closed |-> FALSE]

\* Option.IsZero
IsZero(o) == o.ShortCode = <<>>

\* Choice{}: the zero Choice.
ZeroChoice == [Option |-> ZeroOption, Reason |-> <<>>]

\* The options of the modelled bid wars. Two aliases of different options can
\* match at the same offset ("a b" and "a" in the message "a b").
OptAB(closed) == [DisplayName |-> <<"A","b","b","a">>, ShortCode |-> <<"A","B">>,
                  Aliases |-> << <<"a"," ","b">>, <<"a","b">> >>, Closed |-> closed]
OptA(closed)  == [DisplayName |-> <<"A","n","n","a">>, ShortCode |-> <<"A">>,
                  Aliases |-> << <<"a">> >>, Closed |-> closed]
OptB(closed)  == [DisplayName |-> <<"B","o","b">>, ShortCode |-> <<"B">>,
                  Aliases |-> << <<"b">>, <<"b","b">> >>, Closed |-> closed]

\* A Collection of two Contests, each flag of which is a parameter.
MakeCollection(explicit, c1, c2, oAB, oA, oB) ==
    [Contests |-> <<
        [Name |-> <<"K","1">>, SummaryStyle |-> "ALL", NumberOfWinners |-> 1,
         Options |-> <<OptAB(oAB), OptA(oA)>>, Closed |-> c1],
        [Name |-> <<"K","2">>, SummaryStyle |-> "ALL", NumberOfWinners |-> 1,
         Options |-> <<OptB(oB)>>, Closed |-> c2] >>,
     RequireExplicitBid |-> explicit]

\* The Collections a bid war data file can hold, over the options above.
Collections ==
    {MakeCollection(e, c1, c2, oAB, oA, oB) :
        e \in BOOLEAN, c1 \in BOOLEAN, c2 \in BOOLEAN,
        oAB \in BOOLEAN, oA \in BOOLEAN, oB \in BOOLEAN}

\* The Collection with everything open and bids inferred from any message.
DefaultCollection == MakeCollection(FALSE, FALSE, FALSE, FALSE, FALSE, FALSE)

RECURSIVE Flatten(_)
Flatten(ss) == IF ss = <<>> THEN <<>> ELSE Head(ss) \o Flatten(Tail(ss))

\* AllOpenOptions as it would be if a closed Contest's options were not skipped.
AllOpenOptionsIgnoringContestClosed(c) ==
    Flatten([i \in 1..Len(c.Contests) |->
                SelectSeq(c.Contests[i].Options, LAMBDA opt : ~opt.Closed)])

\* Collection.AllOpenOptions
AllOpenOptions(c) ==
    LET openOf(con) == IF con.Closed THEN <<>>
                       ELSE SelectSeq(con.Options, LAMBDA opt : ~opt.Closed)
    IN  Flatten([i \in 1..Len(c.Contests) |-> openOf(c.Contests[i])])

\* reasonString
reasonString(reason, msg) ==
    IF msg = <<>> THEN <<>>
    ELSE CASE reason = FromChatMessage     -> <<"[","c","h","a","t","]"," ">> \o msg
           [] reason = FromDonationMessage -> <<"[","d","o","n","a","t","i","o","n"," ","m","s","g","]"," ">> \o msg
           [] reason = FromSubMessage      -> <<"[","s","u","b"," ","m","s","g","]"," ">> \o msg
           [] OTHER                        -> <<>>

\* The (option, alias) pairs in the order the two loops of ChoiceFromMessage visit them.
AliasPairs(opts) ==
    Flatten([i \in 1..Len(opts) |->
                [j \in 1..Len(opts[i].Aliases) |-> [opt |-> opts[i], alias |-> opts[i].Aliases[j]]]])

\* ReplacesMin as it would be if a later match at the same offset replaced the earlier one.
ReplacesMinOrEqual(minIndex, idx) == minIndex >= idx \/ minIndex < 0

\* The test that lets a match replace the best match so far.
ReplacesMin(minIndex, idx) == minIndex > idx \/ minIndex < 0

\* The loops of ChoiceFromMessage over the open options and their aliases.
RECURSIVE ScanAliases(_, _, _, _)
ScanAliases(pairs, msg, minIndex, minOpt) ==
    IF pairs = <<>> THEN [minIndex |-> minIndex, minOpt |-> minOpt]
    ELSE LET idx == FindStringIndex(Head(pairs).alias, msg)
         IN  IF idx >= 0 /\ ReplacesMin(minIndex, idx)
             THEN ScanAliases(Tail(pairs), msg, idx, Head(pairs).opt)
             ELSE ScanAliases(Tail(pairs), msg, minIndex, minOpt)

\* A call that returned v, and a call that panicked.
Returned(v) == [panic |-> FALSE, value |-> v]
Panicked == [panic |-> TRUE, value |-> ZeroChoice]

\* ExplicitBidOnly as it would be if chat messages with money attached were let through.
ExplicitBidOnlyButChat(c, reason) ==
    c.RequireExplicitBid /\ reason \notin {FromBidCommand, FromChatMessage}

\* Whether ChoiceFromMessage returns before it looks at the message.
ExplicitBidOnly(c, reason) == c.RequireExplicitBid /\ reason # FromBidCommand

\* ChoiceFromMessage as it would be if the random directive were looked at
\* before the aliases.
ChoiceFromMessageRandomFirst(c, msg, reason) ==
    IF ExplicitBidOnly(c, reason) THEN {Returned(ZeroChoice)}
    ELSE LET openOptions == AllOpenOptions(c)
             scan == ScanAliases(AliasPairs(openOptions), msg, -1, ZeroOption)
         IN  IF RandomDirectiveMatches(msg)
             THEN IF Len(openOptions) = 0 THEN {Panicked}
                  ELSE {Returned([Option |-> openOptions[randIdx], Reason |-> reasonString(reason, msg)]) :
                            randIdx \in 1..Len(openOptions)}
             ELSE {Returned([Option |-> scan.minOpt, Reason |-> reasonString(reason, msg)])}

\* Collection.ChoiceFromMessage: the set of its outcomes. rand.Intn makes the
\* result a choice among the open options, and panics on an empty list.
ChoiceFromMessage(c, msg, reason) ==
    IF ExplicitBidOnly(c, reason) THEN {Returned(ZeroChoice)}
    ELSE LET openOptions == AllOpenOptions(c)
             scan == ScanAliases(AliasPairs(openOptions), msg, -1, ZeroOption)
         IN  IF scan.minIndex < 0 /\ RandomDirectiveMatches(msg)
             THEN IF Len(openOptions) = 0 THEN {Panicked}
                  ELSE {Returned([Option |-> openOptions[randIdx], Reason |-> reasonString(reason, msg)]) :
                            randIdx \in 1..Len(openOptions)}
             ELSE {Returned([Option |-> scan.minOpt, Reason |-> reasonString(reason, msg)])}

----------------------------------------------------------------------------
(* Messages.                                                               *)

\* What messages are made of: letters in either case, a space, and the random
\* directive in two spellings.
MsgPieces == {<<"a">>, <<"B">>, <<" ">>, RandomWord, <<"R","A","N","d","o","M">>}

\* The messages: up to MaxMsgLen pieces, joined.
Messages == {Flatten(ps) : ps \in SeqsUpTo(MsgPieces, MaxMsgLen)}

----------------------------------------------------------------------------
(* The donation table: rows of cells, as the Sheets API hands them out.    *)

\* A cell of a ValueRange (interface{}): a string, a number (float64) or nil.
\* A number cell holds its value in cents.
Str(s) == [k |-> "str", s |-> s, n |-> 0]
Num(n) == [k |-> "num", s |-> <<>>, n |-> n]
Nil    == [k |-> "nil", s |-> <<>>, n |-> 0]

\* donationRow.column: the string in 0-based column n, "" when the row is
\* shorter or the cell is no string.
column(d, n) ==
    IF n >= Len(d) THEN <<>>
    ELSE IF d[n + 1].k = "str" THEN d[n + 1].s ELSE <<>>

\* donationRow.Contributor
Contributor(d) == column(d, 0)

\* donationRow.Choice
Choice(d) == column(d, 3)

\* rowForChoice
rowForChoice(choice) == <<Nil, Nil, Nil, Str(choice.Option.ShortCode), Str(choice.Reason)>>

\* ShouldUpdate as it would be if the donor were compared exactly.
ShouldUpdateExactCase(dr, donor) == Contributor(dr) = donor /\ Choice(dr) = <<>>

\* ShouldUpdate as it would be if rows that have a choice were stamped again.
ShouldUpdateAssigned(dr, donor) == EqualFold(Contributor(dr), donor)

\* The test of makeChoice that selects the rows to stamp.
ShouldUpdate(dr, donor) == EqualFold(Contributor(dr), donor) /\ Choice(dr) = <<>>

\* makeChoice as it would be if it stamped the blank rows of every donor.
makeChoiceAnyDonor(vr, donor, choice) ==
    [vr |-> [MajorDimension |-> vr.MajorDimension,
             Range |-> vr.Range,
             Values |-> [i \in 1..Len(vr.Values) |->
                            IF Choice(vr.Values[i]) = <<>> THEN rowForChoice(choice) ELSE <<>>]],
     updatedRows |-> SelectSeq(vr.Values, LAMBDA dr : Choice(dr) = <<>>)]

\* makeChoice: the ValueRange to write and the original values of the rows it updates.
makeChoice(vr, donor, choice) ==
    [vr |-> [MajorDimension |-> vr.MajorDimension,
             Range |-> vr.Range,
             Values |-> [i \in 1..Len(vr.Values) |->
                            IF ShouldUpdate(vr.Values[i], donor) THEN rowForChoice(choice) ELSE <<>>]],
     updatedRows |-> SelectSeq(vr.Values, LAMBDA dr : ShouldUpdate(dr, donor))]

\* The header row of the tracker sheet.
HeaderRow == << Str(<<"C","o","n","t","r","i","b","u","t","o","r">>), Str(<<"W","h","a","t">>),
                Str(<<"P","o","i","n","t","s">>), Str(<<"C","h","o","i","c","e">>),
                Str(<<"M","e","s","s","a","g","e">>) >>

\* DonationTable.tableRange
TableRange == "'Tracker'!A:E"

\* The donors of the model: two spellings of one name, and another name.
Bob == <<"b","o","b">>
BOB == <<"B","o","b">>
Al  == <<"a","l">>
Donors == {Bob, BOB, Al}

\* The rows a table read can hand to makeChoice: no choice cells (trailing
\* empty cells are left out), blank choice cells, a choice with and without
\* a reason, and an empty row.
SnapshotRows ==
    {<<>>}
    \cup UNION {{ <<Str(d), Str(<<"s","u","b">>), Num(500)>>,
                  <<Str(d), Str(<<"s","u","b">>), Str(<<"5",".","0","0">>), Str(<<>>), Str(<<>>)>>,
                  <<Str(d), Str(<<"s","u","b">>), Num(500), Str(<<"B">>)>>,
                  <<Str(d), Str(<<"s","u","b">>), Num(500), Str(<<"A">>), Str(<<"[","c","h","a","t","]"," ","a">>)>> }
                : d \in Donors}

\* The ValueRanges GetTable can return: the header and up to MaxSnapshotRows rows.
Snapshots ==
    {[MajorDimension |-> "ROWS", Range |-> TableRange, Values |-> <<HeaderRow>> \o rows] :
        rows \in SeqsUpTo(SnapshotRows, MaxSnapshotRows)}

\* The choices a bid command can resolve to.
BidChoices == {[Option |-> OptA(FALSE), Reason |-> <<>>],
               [Option |-> OptB(FALSE), Reason |-> <<"u","s","e","d">>]}

----------------------------------------------------------------------------
(* Donation events.                                                        *)

\* SubEventType
unknown == 0
Subscription == 1
GiftSubscription == 2
CommunityGift == 3

\* SubTier
unknownTier == 0
SubTier1 == 1
SubTier2 == 2
SubTier3 == 3
SubTierPrime == 101

\* Event.SubCentsValue
SubCentsValue(e) ==
    LET baseValue == CASE e.SubTier = SubTierPrime -> 500
                       [] e.SubTier = SubTier1     -> 600
                       [] e.SubTier = SubTier2     -> 1200
                       [] e.SubTier = SubTier3     -> 2500
                       [] OTHER                    -> 0
    IN  baseValue * e.SubMonths * e.SubCount

\* Event.Value
Value(e) == SubCentsValue(e) + e.Bits + e.Cash

\* Event.Description for an event of one kind and of tier 1, without the
\* amounts of cash and bits it prints; a sub count is one digit.
Description(e) ==
    IF e.Cash > 0 THEN <<"d","o","n","a","t","i","o","n">>
    ELSE IF e.Bits > 0 THEN <<"b","i","t","s">>
    ELSE IF e.SubCount > 0
    THEN (IF e.SubCount > 1 THEN <<DigitChars[e.SubCount + 1], "x", " ">> ELSE <<>>)
         \o (IF e.Type = Subscription THEN <<"s","u","b">>
             ELSE IF e.Type \in {GiftSubscription, CommunityGift} THEN <<"g","i","f","t"," ","s","u","b">>
             ELSE <<>>)
    ELSE <<>>

\* ParseSubEvent: a sub, gift sub or community gift notice.
SubEvent(type, owner, tier, count, msg) ==
    [Owner |-> owner, Type |-> type, SubCount |-> count, SubTier |-> tier, SubMonths |-> 1,
     Bits |-> 0, Cash |-> 0, Message |-> msg]

\* ParseBitsEvent: a chat message with bits.
BitsEvent(owner, bits, msg) ==
    [Owner |-> owner, Type |-> unknown, SubCount |-> 0, SubTier |-> unknownTier, SubMonths |-> 0,
     Bits |-> bits, Cash |-> 0, Message |-> msg]

\* The Event a donation poller or the tip file watcher emits.
MoneyEvent(owner, cents, msg) ==
    [Owner |-> owner, Type |-> unknown, SubCount |-> 0, SubTier |-> unknownTier, SubMonths |-> 0,
     Bits |-> 0, Cash |-> cents, Message |-> msg]

\* A chat message that is a bid command: only its sender and text are used.
BidMessage(name, msg) ==
    [Owner |-> name, Type |-> unknown, SubCount |-> 0, SubTier |-> unknownTier, SubMonths |-> 0,
     Bits |-> 0, Cash |-> 0, Message |-> msg]

----------------------------------------------------------------------------
(* The DonationTable.                                                      *)

\* A row as a read returns it: without its trailing empty cells.
RECURSIVE TrimRow(_)
TrimRow(row) ==
    IF row # <<>> /\ row[Len(row)] \in {Str(<<>>), Nil}
    THEN TrimRow(SubSeq(row, 1, Len(row) - 1))
    ELSE row

\* DonationTable.Append: the table with the row of a donation added at the end.
\* The amount is entered as a number (USER_ENTERED).
TableAppend(tbl, ev, bidwarOption, bidwarReason) ==
    Append(tbl, TrimRow(<<Str(ev.Owner), Str(Description(ev)), Num(Value(ev)),
                          Str(bidwarOption), Str(bidwarReason)>>))

\* sheetsClient.RecordDonation
RecordDonationRow(tbl, ev, bid) == TableAppend(tbl, ev, bid.Option.DisplayName, bid.Reason)

\* DonationTable.GetTable
GetTable(tbl) == [MajorDimension |-> "ROWS", Range |-> TableRange, Values |-> tbl]

\* One row after an update: nil cells and cells past the end of the patch
\* entry are not overwritten.
PatchRow(row, delta) ==
    LET width == IF Len(row) > Len(delta) THEN Len(row) ELSE Len(delta)
        cell(j) == IF j <= Len(delta) /\ delta[j] # Nil THEN delta[j]
                   ELSE IF j <= Len(row) THEN row[j] ELSE Str(<<>>)
    IN  TrimRow([j \in 1..width |-> cell(j)])

\* DonationTable.WriteTable: the table after the update of vr.Range with vr.Values.
WriteTable(tbl, vr) ==
    [i \in 1..Len(tbl) |-> IF i <= Len(vr.Values) THEN PatchRow(tbl[i], vr.Values[i]) ELSE tbl[i]]

\* The number a decimal digit stands for.
DigitValue(c) == (CHOOSE i \in DOMAIN DigitChars : DigitChars[i] = c) - 1

\* The number a string of decimal digits stands for.
RECURSIVE DigitsValue(_)
DigitsValue(ds) ==
    IF ds = <<>> THEN 0 ELSE 10 * DigitsValue(SubSeq(ds, 1, Len(ds) - 1)) + DigitValue(ds[Len(ds)])

\* The sign strconv.ParseFloat reads at the head of s: -1 for "-", else 1.
SignOf(s) == IF s # <<>> /\ s[1] = "-" THEN -1 ELSE 1

\* s without the sign at its head.
Unsigned(s) == IF s # <<>> /\ s[1] \in {"+", "-"} THEN Tail(s) ELSE s

\* int(math.Round(f * 100)) for the f that strconv.ParseFloat reads from an
\* unsigned decimal such as "5.00"; 0 for a string it cannot read (here: any
\* other string).
UnsignedCents(s) ==
    LET dots  == {i \in 1..Len(s) : s[i] = "."}
        dot   == IF dots = {} THEN Len(s) + 1 ELSE CHOOSE i \in dots : \A j \in dots : i <= j
        whole == SubSeq(s, 1, dot - 1)
        frac  == SubSeq(s, dot + 1, Len(s))
        digit(i) == IF i <= Len(frac) THEN DigitValue(frac[i]) ELSE 0
    IN  IF \/ Cardinality(dots) > 1
           \/ whole \o frac = <<>>
           \/ \E i \in 1..Len(s) : i # dot /\ s[i] \notin Range(DigitChars)
        THEN 0
        ELSE 100 * DigitsValue(whole) + 10 * digit(1) + digit(2) + (IF digit(3) >= 5 THEN 1 ELSE 0)

\* int(math.Round(f * 100)) for the f that strconv.ParseFloat reads from a
\* decimal with or without a sign; math.Round rounds half away from zero.
ParseCents(s) == SignOf(s) * UnsignedCents(Unsigned(s))

\* donationRow.Cents
Cents(d) ==
    IF Len(d) < 3 THEN 0
    ELSE CASE d[3].k = "str" -> ParseCents(d[3].s)
           [] d[3].k = "num" -> d[3].n
           [] OTHER          -> 0

RECURSIVE SumCents(_)
SumCents(rows) == IF rows = <<>> THEN 0 ELSE Cents(Head(rows)) + SumCents(Tail(rows))

----------------------------------------------------------------------------
(* The bot: its maps, its clock and its handlers.                          *)

\* const chatCooldown, in seconds; const chatBucketSize.
chatCooldown == 1
chatBucketSize == 10
\* const bidPrefTTL, in seconds.
bidPrefTTL == 180
\* const massGiftCooldown, in seconds.
massGiftCooldown == 10
\* const minimumDonation, in cents.
minimumDonation == 100

\* The zero time.Time, which a miss in a map of times yields: long before the bot started.
ZeroTime == -2000000000

\* A Go map, as a function from the keys it holds.
EmptyMap == [k \in {} |-> 0]
MapPut(m, k, v) == [x \in (DOMAIN m) \cup {k} |-> IF x = k THEN v ELSE m[x]]
MapDelete(m, k) == [x \in (DOMAIN m) \ {k} |-> m[x]]

\* b.communityGifts[owner]
GiftTime(gifts, owner) == IF owner \in DOMAIN gifts THEN gifts[owner] ELSE ZeroTime

\* bot.updateCommunityGift at time t.
updateCommunityGift(gifts, ev, t) == MapPut(gifts, ev.Owner, t)

\* shouldIgnoreSubGift as it would be if the end of the window were included.
shouldIgnoreSubGiftInclusive(gifts, ev, t) == GiftTime(gifts, ev.Owner) + massGiftCooldown >= t

\* shouldIgnoreSubGift as it would be if it never ignored a gift sub.
shouldIgnoreSubGiftNever(gifts, ev, t) == FALSE

\* bot.shouldIgnoreSubGift at time t.
shouldIgnoreSubGift(gifts, ev, t) == GiftTime(gifts, ev.Owner) + massGiftCooldown > t

\* rememberPref as it would be if an earlier entry of the donor were kept.
rememberPrefKeepFirst(prefs, username, choice, t, id) ==
    IF ToLower(username) \in DOMAIN prefs THEN prefs
    ELSE MapPut(prefs, ToLower(username), [Choice |-> choice, Expiration |-> t + bidPrefTTL, id |-> id])

\* rememberPref as it would be if the name were the key as it is spelled.
rememberPrefAsSpelled(prefs, username, choice, t, id) ==
    MapPut(prefs, username, [Choice |-> choice, Expiration |-> t + bidPrefTTL, id |-> id])

\* bot.rememberPref at time t. id numbers the call; the code does not store it.
rememberPref(prefs, username, choice, t, id) ==
    MapPut(prefs, ToLower(username), [Choice |-> choice, Expiration |-> t + bidPrefTTL, id |-> id])

\* What the locked part of getChoice finds for a donor at time t: the Choice it
\* returns, the map it leaves, and what the lookup met (none, absent, expired, hit).
LookupPref(prefs, owner, t) ==
    LET donor == ToLower(owner)
        ok    == donor \in DOMAIN prefs
        left  == MapDelete(prefs, donor)
    IN  IF ~ok THEN [choice |-> ZeroChoice, prefs |-> left, lookup |-> "absent", prefId |-> 0]
        ELSE IF t > prefs[donor].Expiration
        THEN [choice |-> ZeroChoice, prefs |-> left, lookup |-> "expired", prefId |-> 0]
        ELSE [choice |-> prefs[donor].Choice, prefs |-> left, lookup |-> "hit", prefId |-> prefs[donor].id]

\* getChoice as it would be if the entry were read but not deleted.
getChoiceNoDelete(prefs, ev, out, t) ==
    IF Value(ev) < minimumDonation
    THEN [choice |-> ZeroChoice, prefs |-> prefs, lookup |-> "none", prefId |-> 0]
    ELSE IF ~IsZero(out.value.Option)
    THEN [choice |-> out.value, prefs |-> prefs, lookup |-> "none", prefId |-> 0]
    ELSE [LookupPref(prefs, ev.Owner, t) EXCEPT !.prefs = prefs]

\* getChoice as it would be if the expiration were not looked at.
getChoiceNoExpiry(prefs, ev, out, t) ==
    LET r == LookupPref(prefs, ev.Owner, t)
        donor == ToLower(ev.Owner)
    IN  IF Value(ev) < minimumDonation
        THEN [choice |-> ZeroChoice, prefs |-> prefs, lookup |-> "none", prefId |-> 0]
        ELSE IF ~IsZero(out.value.Option)
        THEN [choice |-> out.value, prefs |-> prefs, lookup |-> "none", prefId |-> 0]
        ELSE IF r.lookup = "expired"
        THEN [r EXCEPT !.choice = prefs[donor].Choice, !.prefId = prefs[donor].id]
        ELSE r

\* getChoice as it would be if events below the minimum were treated as any other.
getChoiceNoMinimum(prefs, ev, out, t) ==
    IF ~IsZero(out.value.Option)
    THEN [choice |-> out.value, prefs |-> prefs, lookup |-> "none", prefId |-> 0]
    ELSE LookupPref(prefs, ev.Owner, t)

\* bot.getChoice at time t, for the outcome out of ChoiceFromMessage.
getChoice(prefs, ev, out, t) ==
    IF Value(ev) < minimumDonation
    THEN [choice |-> ZeroChoice, prefs |-> prefs, lookup |-> "none", prefId |-> 0]
    ELSE IF ~IsZero(out.value.Option)
    THEN [choice |-> out.value, prefs |-> prefs, lookup |-> "none", prefId |-> 0]
    ELSE LookupPref(prefs, ev.Owner, t)

\* Collection.FindContest
FindContest(c, o) ==
    LET hits == {i \in 1..Len(c.Contests) :
                    /\ ~c.Contests[i].Closed
                    /\ \E j \in 1..Len(c.Contests[i].Options) :
                          c.Contests[i].Options[j].ShortCode = o.ShortCode}
    IN  IF hits = {} THEN [Name |-> <<>>, SummaryStyle |-> "", NumberOfWinners |-> 0,
                           Options |-> <<>>, Closed |-> FALSE]
        ELSE c.Contests[CHOOSE i \in hits : \A j \in hits : i <= j]

\* A limiter that grants every call.
AllowAlways(lim, t) == [ok |-> TRUE, lim |-> lim]

\* chatLimiter.Allow at time t: whether a token is granted, and the limiter after the call.
Allow(lim, t) ==
    LET filled == lim.tokens + (t - lim.last) \div chatCooldown
        tokens == IF filled > chatBucketSize THEN chatBucketSize ELSE filled
    IN  IF tokens >= 1 THEN [ok |-> TRUE, lim |-> [tokens |-> tokens - 1, last |-> t]]
        ELSE [ok |-> FALSE, lim |-> lim]

\* The reason each dispatcher gives to getChoice.
ReasonOf(kind) ==
    CASE kind = "sub"   -> FromSubMessage
      [] kind = "bits"  -> FromChatMessage
      [] kind = "money" -> FromDonationMessage
      [] OTHER          -> FromBidCommand

\* The ledger calls a handler has made so far: none.
NoCalls == [append |-> 0, read |-> 0, write |-> 0, totals |-> 0]

\* An event just dispatched: its handler at position pc. The handler notes the
\* time of the dispatch, how many community gifts had been marked by then,
\* how many rows it has appended, how often it has made each ledger call,
\* the ledger call that failed, if one did, and how it holds b.mu: not at all,
\* for writing (Lock) or for reading (RLock).
NewHandler(kind, ev, pc, ignored, t, seen) ==
    [kind |-> kind, ev |-> ev, pc |-> pc, ignored |-> ignored, at |-> t, seen |-> seen,
     appended |-> 0, bid |-> ZeroChoice, lookup |-> "none", prefId |-> 0,
     snapshot |-> <<>>, count |-> 0, total |-> 0, err |-> FALSE, calls |-> NoCalls, failed |-> "",
     mu |-> ""]

\* The bot after construction: empty maps, a full token bucket, and a tracker
\* sheet that holds its header.
BotIdle ==
    /\ now = 0
    /\ ticks = 0
    /\ communityGifts = EmptyMap
    /\ pendingBids = EmptyMap
    /\ table = <<HeaderRow>>
    /\ handlers = <<>>
    /\ chat = <<>>
    /\ limiter = [tokens |-> chatBucketSize, last |-> 0]
    /\ markLog = <<>>
    /\ prefLog = <<>>

\* The clock advances by d seconds.
Tick(d) ==
    /\ ticks < MaxTicks
    /\ now' = now + d
    /\ ticks' = ticks + 1
    /\ UNCHANGED <<bidwars, call, ret, communityGifts, pendingBids, table, handlers, chat, limiter, markLog, prefLog>>

\* bot.dispatchSubEvent up to its call of getChoice: the community gift is
\* marked, or the gift sub is looked up and dropped.
dispatchSubEvent(ev) ==
    /\ Len(handlers) < MaxEvents
    /\ LET gifts  == IF ev.Type = CommunityGift
                     THEN updateCommunityGift(communityGifts, ev, now) ELSE communityGifts
           ignore == ev.Type = GiftSubscription /\ shouldIgnoreSubGift(gifts, ev, now)
       IN  /\ communityGifts' = gifts
           /\ markLog' = IF ev.Type = CommunityGift
                         THEN Append(markLog, [Owner |-> ev.Owner, at |-> now]) ELSE markLog
           /\ handlers' = Append(handlers,
                               NewHandler("sub", ev, IF ignore THEN "done" ELSE "choice", ignore, now,
                                          Len(markLog) + (IF ev.Type = CommunityGift THEN 1 ELSE 0)))
    /\ UNCHANGED <<bidwars, call, ret, now, ticks, pendingBids, table, chat, limiter, prefLog>>

\* bot.dispatchBitsEvent up to its call of getChoice.
dispatchBitsEvent(ev) ==
    /\ Len(handlers) < MaxEvents
    /\ handlers' = Append(handlers, NewHandler("bits", ev, "choice", FALSE, now, Len(markLog)))
    /\ UNCHANGED <<bidwars, call, ret, now, ticks, communityGifts, pendingBids, table, chat, limiter, markLog, prefLog>>

\* bot.dispatchMoneyDonation up to its call of getChoice.
dispatchMoneyDonation(ev) ==
    /\ Len(handlers) < MaxEvents
    /\ handlers' = Append(handlers, NewHandler("money", ev, "choice", FALSE, now, Len(markLog)))
    /\ UNCHANGED <<bidwars, call, ret, now, ticks, communityGifts, pendingBids, table, chat, limiter, markLog, prefLog>>

\* bot.dispatchBidCommand: the goroutine is started.
dispatchBidCommand(m) ==
    /\ Len(handlers) < MaxEvents
    /\ handlers' = Append(handlers, NewHandler("bid", m, "assign", FALSE, now, Len(markLog)))
    /\ UNCHANGED <<bidwars, call, ret, now, ticks, communityGifts, pendingBids, table, chat, limiter, markLog, prefLog>>

\* The call of getChoice in a dispatcher, after which the goroutine that
\* records the donation is started.
GetChoice(i) ==
    /\ handlers[i].pc = "choice"
    /\ \E out \in ChoiceFromMessage(bidwars, handlers[i].ev.Message, ReasonOf(handlers[i].kind)) :
          /\ ~out.panic
          /\ LET r == getChoice(pendingBids, handlers[i].ev, out, now)
             IN  /\ pendingBids' = r.prefs
                 /\ handlers' = [handlers EXCEPT ![i].pc = "record", ![i].bid = r.choice,
                                                 ![i].lookup = r.lookup, ![i].prefId = r.prefId]
    /\ UNCHANGED <<bidwars, call, ret, now, ticks, communityGifts, table, chat, limiter, markLog, prefLog>>

\* The goroutine of a dispatcher: dbRecorder.RecordDonation.
RecordDonation(i) ==
    /\ handlers[i].pc = "record"
    /\ table' = RecordDonationRow(table, handlers[i].ev, handlers[i].bid)
    /\ handlers' = [handlers EXCEPT ![i].pc = "say", ![i].appended = @ + 1, ![i].calls.append = @ + 1]
    /\ UNCHANGED <<bidwars, call, ret, now, ticks, communityGifts, pendingBids, chat, limiter, markLog, prefLog>>

\* sayWithTotals as it would be if it spoke for every option.
NothingToSayNever(c, opt) == FALSE

\* sayWithTotals returns before it fetches the totals: for the zero Option,
\* and for an option of no open contest (getNewTotals fails).
NothingToSay(c, opt) == IsZero(opt) \/ FindContest(c, opt).Name = <<>>

\* bot.sayWithTotals and bot.say for the option of handler i: nothing for the
\* zero Option or an option of no open contest, else the totals are fetched
\* and one message is sent if the limiter grants a token.
SayWithTotals(i) ==
    /\ handlers[i].pc = "say"
    /\ LET opt == handlers[i].bid.Option
           a   == Allow(limiter, now)
       IN  IF NothingToSay(bidwars, opt)
           THEN /\ handlers' = [handlers EXCEPT ![i].pc = "done"]
                /\ UNCHANGED <<chat, limiter>>
           ELSE /\ handlers' = [handlers EXCEPT ![i].pc = "done", ![i].calls.totals = @ + 1]
                /\ limiter' = a.lim
                /\ chat' = IF a.ok
                           THEN Append(chat, [h |-> i, to |-> handlers[i].ev.Owner, opt |-> opt.ShortCode])
                           ELSE chat
    /\ UNCHANGED <<bidwars, call, ret, now, ticks, communityGifts, pendingBids, table, markLog, prefLog>>

\* Tallier.AssignFromMessage up to its read of the table, in the goroutine of
\* dispatchBidCommand: an empty donor is an error, an unresolved message is
\* answered with the list of options, and else the table is read.
AssignRead(i) ==
    /\ handlers[i].pc = "assign"
    /\ \E out \in ChoiceFromMessage(bidwars, handlers[i].ev.Message, FromBidCommand) :
          /\ ~out.panic
          /\ IF handlers[i].ev.Owner = <<>>
             THEN /\ handlers' = [handlers EXCEPT ![i].pc = "done", ![i].err = TRUE]
                  /\ UNCHANGED <<chat, limiter>>
             ELSE IF IsZero(out.value.Option)
             THEN /\ handlers' = [handlers EXCEPT ![i].pc = "done"]
                  /\ LET a == Allow(limiter, now)
                     IN  IF Len(AllOpenOptions(bidwars)) > 0
                         THEN /\ limiter' = a.lim
                              /\ chat' = IF a.ok
                                         THEN Append(chat, [h |-> i, to |-> handlers[i].ev.Owner, opt |-> <<>>])
                                         ELSE chat
                         ELSE UNCHANGED <<chat, limiter>>
             ELSE /\ handlers' = [handlers EXCEPT ![i].pc = "write", ![i].bid = out.value,
                                                  ![i].snapshot = <<GetTable(table)>>,
                                                  ![i].calls.read = @ + 1]
                  /\ UNCHANGED <<chat, limiter>>
    /\ UNCHANGED <<bidwars, call, ret, now, ticks, communityGifts, pendingBids, table, markLog, prefLog>>

\* The rest of Tallier.AssignFromMessage: makeChoice on the table that was
\* read, and one WriteTable if any row matched.
AssignWrite(i) ==
    /\ handlers[i].pc = "write"
    /\ LET r == makeChoice(handlers[i].snapshot[1], handlers[i].ev.Owner, handlers[i].bid)
       IN  /\ table' = IF Len(r.updatedRows) > 0 THEN WriteTable(table, r.vr) ELSE table
           /\ handlers' = [handlers EXCEPT ![i].pc = "reply", ![i].count = Len(r.updatedRows),
                                           ![i].total = SumCents(r.updatedRows),
                                           ![i].calls.write = @ + (IF Len(r.updatedRows) > 0 THEN 1 ELSE 0)]
    /\ UNCHANGED <<bidwars, call, ret, now, ticks, communityGifts, pendingBids, chat, limiter, markLog, prefLog>>

\* dispatchBidCommand after AssignFromMessage returned a choice: the
\* preference is remembered when the bid moved no points.
BidReply(i) ==
    /\ handlers[i].pc = "reply"
    /\ handlers' = [handlers EXCEPT ![i].pc = "say"]
    /\ pendingBids' = IF handlers[i].total > 0 THEN pendingBids
                      ELSE rememberPref(pendingBids, handlers[i].ev.Owner, handlers[i].bid, now, i)
    /\ prefLog' = IF handlers[i].total > 0 THEN prefLog
                  ELSE Append(prefLog, [username |-> handlers[i].ev.Owner, choice |-> handlers[i].bid,
                                        at |-> now, id |-> i])
    /\ UNCHANGED <<bidwars, call, ret, now, ticks, communityGifts, table, chat, limiter, markLog>>

\* Where a goroutine goes on when a ledger call returned an error, if it
\* went on to the reply.
PcAfterErrorSay == "say"

\* Where a goroutine goes on when a ledger call returned an error: the error
\* is logged and the goroutine returns.
PcAfterError == "done"

\* The goroutine of a dispatcher when dbRecorder.RecordDonation returns an
\* error: the row may have reached the sheet or not.
RecordDonationFails(i) ==
    /\ handlers[i].pc = "record"
    /\ table' \in {table, RecordDonationRow(table, handlers[i].ev, handlers[i].bid)}
    /\ handlers' = [handlers EXCEPT ![i].pc = PcAfterError, ![i].err = TRUE, ![i].failed = "append",
                                    ![i].calls.append = @ + 1]
    /\ UNCHANGED <<bidwars, call, ret, now, ticks, communityGifts, pendingBids, chat, limiter, markLog, prefLog>>

\* Tallier.AssignFromMessage when GetTable returns an error: zero stats and
\* the error, which dispatchBidCommand logs.
AssignReadFails(i) ==
    /\ handlers[i].pc = "assign"
    /\ handlers[i].ev.Owner # <<>>
    /\ \E out \in ChoiceFromMessage(bidwars, handlers[i].ev.Message, FromBidCommand) :
          ~out.panic /\ ~IsZero(out.value.Option)
    /\ handlers' = [handlers EXCEPT ![i].pc = PcAfterError, ![i].err = TRUE, ![i].failed = "read",
                                    ![i].calls.read = @ + 1]
    /\ UNCHANGED <<bidwars, call, ret, now, ticks, communityGifts, pendingBids, table, chat, limiter,
                   markLog, prefLog>>

\* Tallier.AssignFromMessage when WriteTable returns an error: zero stats and
\* the error; the rows may have been written or not.
AssignWriteFails(i) ==
    /\ handlers[i].pc = "write"
    /\ LET r == makeChoice(handlers[i].snapshot[1], handlers[i].ev.Owner, handlers[i].bid)
       IN  /\ Len(r.updatedRows) > 0
           /\ table' \in {table, WriteTable(table, r.vr)}
    /\ handlers' = [handlers EXCEPT ![i].pc = PcAfterError, ![i].err = TRUE, ![i].failed = "write",
                                    ![i].bid = ZeroChoice, ![i].calls.write = @ + 1]
    /\ UNCHANGED <<bidwars, call, ret, now, ticks, communityGifts, pendingBids, chat, limiter, markLog, prefLog>>

\* bot.sayWithTotals when TotalsForContest returns an error: it is logged
\* and nothing is said.
GetNewTotalsFails(i) ==
    /\ handlers[i].pc = "say"
    /\ ~NothingToSay(bidwars, handlers[i].bid.Option)
    /\ handlers' = [handlers EXCEPT ![i].pc = "done", ![i].err = TRUE, ![i].failed = "totals",
                                    ![i].calls.totals = @ + 1]
    /\ UNCHANGED <<bidwars, call, ret, now, ticks, communityGifts, pendingBids, table, chat, limiter,
                   markLog, prefLog>>

----------------------------------------------------------------------------
(* The bot handling bid commands and bits against the shared table.        *)
(*                                                                         *)
(* Each bid command runs in a goroutine of its own, and each dispatcher    *)
(* starts a goroutine for the append and the reply, so the steps of        *)
(* different handlers interleave freely.                                   *)

BidCmd(tail) == <<"!","b","i","d"," ">> \o tail

\* The bid commands and cheers that arrive, all of one donor.
LedgerBidCommands == {BidMessage(Bob, BidCmd(<<"a">>)), BidMessage(Bob, BidCmd(<<"B">>))}
LedgerBitsDonations == {BitsEvent(Bob, 500, <<>>)}

InitLedger ==
    /\ bidwars = DefaultCollection
    /\ call = [fn |-> "bot"]
    /\ ret = <<>>
    /\ BotIdle

NextLedger ==
    \/ \E m \in LedgerBidCommands : dispatchBidCommand(m)
    \/ \E ev \in LedgerBitsDonations : dispatchBitsEvent(ev)
    \/ \E i \in 1..Len(handlers) : GetChoice(i)
    \/ \E i \in 1..Len(handlers) : RecordDonation(i)
    \/ \E i \in 1..Len(handlers) : SayWithTotals(i)
    \/ \E i \in 1..Len(handlers) : AssignRead(i)
    \/ \E i \in 1..Len(handlers) : AssignWrite(i)
    \/ \E i \in 1..Len(handlers) : BidReply(i)

SpecLedger == InitLedger /\ [][NextLedger]_vars

----------------------------------------------------------------------------
(* The bot remembering the preference of a bid command for later           *)
(* donations, while the clock runs.                                        *)

\* The bid commands and donations that arrive, of one donor under two spellings.
PrefBidCommands == {BidMessage(BOB, BidCmd(<<"a">>))}
PrefMoneyDonations == {MoneyEvent(Bob, 500, <<>>), MoneyEvent(Bob, 500, <<"B">>)}

\* Seconds by which the clock advances between steps: within the TTL and up to it.
PrefTicks == {1, bidPrefTTL}

InitPref ==
    /\ bidwars = DefaultCollection
    /\ call = [fn |-> "bot"]
    /\ ret = <<>>
    /\ BotIdle

NextPref ==
    \/ \E m \in PrefBidCommands : dispatchBidCommand(m)
    \/ \E ev \in PrefMoneyDonations : dispatchMoneyDonation(ev)
    \/ \E i \in 1..Len(handlers) : GetChoice(i)
    \/ \E i \in 1..Len(handlers) : RecordDonation(i)
    \/ \E i \in 1..Len(handlers) : SayWithTotals(i)
    \/ \E i \in 1..Len(handlers) : AssignRead(i)
    \/ \E i \in 1..Len(handlers) : AssignWrite(i)
    \/ \E i \in 1..Len(handlers) : BidReply(i)
    \/ \E d \in PrefTicks : Tick(d)

SpecPref == InitPref /\ [][NextPref]_vars

----------------------------------------------------------------------------
(* The bot remembering the preferences of two bid commands of one donor,   *)
(* spelled in two ways, for a later donation.                              *)

RememberBidCommands == {BidMessage(BOB, BidCmd(<<"a">>)), BidMessage(Bob, BidCmd(<<"B">>))}
\* The donation that follows spells the name in a third way.
RememberMoneyDonations == {MoneyEvent(<<"b","O","b">>, 500, <<>>)}

InitRemember ==
    /\ bidwars = DefaultCollection
    /\ call = [fn |-> "bot"]
    /\ ret = <<>>
    /\ BotIdle

NextRemember ==
    \/ \E m \in RememberBidCommands : dispatchBidCommand(m)
    \/ \E ev \in RememberMoneyDonations : dispatchMoneyDonation(ev)
    \/ \E i \in 1..Len(handlers) : GetChoice(i)
    \/ \E i \in 1..Len(handlers) : RecordDonation(i)
    \/ \E i \in 1..Len(handlers) : SayWithTotals(i)
    \/ \E i \in 1..Len(handlers) : AssignRead(i)
    \/ \E i \in 1..Len(handlers) : AssignWrite(i)
    \/ \E i \in 1..Len(handlers) : BidReply(i)
    \/ \E d \in PrefTicks : Tick(d)

SpecRemember == InitRemember /\ [][NextRemember]_vars

----------------------------------------------------------------------------
(* The bot handling subscription notices.                                  *)

\* The notices that arrive: a community gift of two subs, and single gift subs.
SubNotices == {SubEvent(CommunityGift, Bob, SubTier1, 2, <<>>),
               SubEvent(GiftSubscription, Bob, SubTier1, 1, <<"a">>),
               SubEvent(GiftSubscription, Al, SubTier1, 1, <<>>)}

\* Seconds by which the clock advances between steps: within the cooldown and up to it.
GiftTicks == {1, massGiftCooldown - 1}

InitGift ==
    /\ bidwars = DefaultCollection
    /\ call = [fn |-> "bot"]
    /\ ret = <<>>
    /\ BotIdle

NextGift ==
    \/ \E ev \in SubNotices : dispatchSubEvent(ev)
    \/ \E i \in 1..Len(handlers) : GetChoice(i)
    \/ \E i \in 1..Len(handlers) : RecordDonation(i)
    \/ \E i \in 1..Len(handlers) : SayWithTotals(i)
    \/ \E d \in GiftTicks : Tick(d)

SpecGift == InitGift /\ [][NextGift]_vars

----------------------------------------------------------------------------
(* The bot replying to bid commands and donations, some of which name no   *)
(* option, with a donor whose earlier row is worth nothing.                *)

\* The bid commands that arrive: one for an option, one that names none.
ReplyBidCommands == {BidMessage(Bob, BidCmd(<<"a">>)), BidMessage(Bob, BidCmd(<<>>))}

\* A sub notice without a known sub plan, which is worth 0, and a donation
\* without a message.
ReplySubNotices == {SubEvent(Subscription, Bob, unknownTier, 1, <<>>)}
ReplyMoneyDonations == {MoneyEvent(Bob, 500, <<>>)}

InitReply ==
    /\ bidwars = DefaultCollection
    /\ call = [fn |-> "bot"]
    /\ ret = <<>>
    /\ BotIdle

NextReply ==
    \/ \E m \in ReplyBidCommands : dispatchBidCommand(m)
    \/ \E ev \in ReplySubNotices : dispatchSubEvent(ev)
    \/ \E ev \in ReplyMoneyDonations : dispatchMoneyDonation(ev)
    \/ \E i \in 1..Len(handlers) : GetChoice(i)
    \/ \E i \in 1..Len(handlers) : RecordDonation(i)
    \/ \E i \in 1..Len(handlers) : SayWithTotals(i)
    \/ \E i \in 1..Len(handlers) : AssignRead(i)
    \/ \E i \in 1..Len(handlers) : AssignWrite(i)
    \/ \E i \in 1..Len(handlers) : BidReply(i)

SpecReply == InitReply /\ [][NextReply]_vars

----------------------------------------------------------------------------
(* The bot when ledger calls fail.                                         *)

\* The events that arrive: a bid command, and a donation that names an option.
FailureBidCommands == {BidMessage(Bob, BidCmd(<<"a">>))}
FailureMoneyDonations == {MoneyEvent(Bob, 500, <<>>)}

InitFailure ==
    /\ bidwars = DefaultCollection
    /\ call = [fn |-> "bot"]
    /\ ret = <<>>
    /\ BotIdle

NextFailure ==
    \/ \E m \in FailureBidCommands : dispatchBidCommand(m)
    \/ \E ev \in FailureMoneyDonations : dispatchMoneyDonation(ev)
    \/ \E i \in 1..Len(handlers) : GetChoice(i)
    \/ \E i \in 1..Len(handlers) : RecordDonation(i)
    \/ \E i \in 1..Len(handlers) : RecordDonationFails(i)
    \/ \E i \in 1..Len(handlers) : SayWithTotals(i)
    \/ \E i \in 1..Len(handlers) : GetNewTotalsFails(i)
    \/ \E i \in 1..Len(handlers) : AssignRead(i)
    \/ \E i \in 1..Len(handlers) : AssignReadFails(i)
    \/ \E i \in 1..Len(handlers) : AssignWrite(i)
    \/ \E i \in 1..Len(handlers) : AssignWriteFails(i)
    \/ \E i \in 1..Len(handlers) : BidReply(i)

SpecFailure == InitFailure /\ [][NextFailure]_vars

----------------------------------------------------------------------------
(* bot.say on its own: calls of say as the clock advances.                 *)

\* The seconds the clock advances by between calls of say.
SayTicks == {1, 3}

\* bot.say: the limiter is asked once; the message is sent if a token is
\* granted and dropped if not, and either way a line is logged and say
\* returns.  ret holds the log: when each call was made and whether it sent.
CallSay ==
    /\ Len(ret) < MaxSays
    /\ LET a == Allow(limiter, now)
       IN  /\ limiter' = a.lim
           /\ chat' = IF a.ok THEN Append(chat, [h |-> Len(ret) + 1, to |-> <<>>, opt |-> <<>>])
                      ELSE chat
           /\ ret' = Append(ret, [at |-> now, sent |-> a.ok])
    /\ UNCHANGED <<bidwars, call, now, ticks, communityGifts, pendingBids, table, handlers, markLog, prefLog>>

InitSay ==
    /\ bidwars = DefaultCollection
    /\ call = [fn |-> "say"]
    /\ ret = <<>>
    /\ BotIdle

NextSay ==
    \/ CallSay
    \/ \E d \in SayTicks : Tick(d)

SpecSay == InitSay /\ [][NextSay]_vars

----------------------------------------------------------------------------
(* The bot's mutex: the dispatchers step by step around b.mu.              *)

MutexSubNotices == {SubEvent(CommunityGift, Bob, SubTier1, 2, <<>>),
                    SubEvent(GiftSubscription, Bob, SubTier1, 1, <<>>)}
MutexMoneyDonations == {MoneyEvent(Bob, 500, <<>>)}
MutexBidCommands == {BidMessage(Bob, BidCmd(<<"a">>))}

\* sync.RWMutex: Lock is granted when nobody holds the mutex, RLock when
\* nobody holds it for writing.
CanLock(hs) == \A j \in 1..Len(hs) : hs[j].mu = ""
CanRLock(hs) == \A j \in 1..Len(hs) : hs[j].mu # "w"

\* The mutex of a function that returned without its deferred unlock.
StillHeld(mode) == mode

\* defer b.mu.Unlock() / defer b.mu.RUnlock(): the mutex of the caller when
\* the function has returned.
Unlocked(mode) == ""

\* bot.dispatchSubEvent is entered: a community gift goes to
\* updateCommunityGift, a gift sub to shouldIgnoreSubGift, any other notice
\* to getChoice.
dispatchSubEventEnter(ev) ==
    /\ Len(handlers) < MaxEvents
    /\ handlers' = Append(handlers,
                        NewHandler("sub", ev,
                                   CASE ev.Type = CommunityGift -> "mark"
                                     [] ev.Type = GiftSubscription -> "gift"
                                     [] OTHER -> "choice",
                                   FALSE, now, Len(markLog)))
    /\ UNCHANGED <<bidwars, call, ret, now, ticks, communityGifts, pendingBids, table, chat, limiter, markLog, prefLog>>

\* updateCommunityGift: b.mu.Lock()
updateCommunityGiftLock(i) ==
    /\ handlers[i].pc = "mark"
    /\ CanLock(handlers)
    /\ handlers' = [handlers EXCEPT ![i].pc = "marking", ![i].mu = "w"]
    /\ UNCHANGED <<bidwars, call, ret, now, ticks, communityGifts, pendingBids, table, chat, limiter, markLog, prefLog>>

\* updateCommunityGift: the map is written and the function returns.  A
\* community gift is not a gift sub, so getChoice is next.
updateCommunityGiftReturn(i) ==
    /\ handlers[i].pc = "marking"
    /\ communityGifts' = updateCommunityGift(communityGifts, handlers[i].ev, now)
    /\ markLog' = Append(markLog, [Owner |-> handlers[i].ev.Owner, at |-> now])
    /\ handlers' = [handlers EXCEPT ![i].pc = "choice", ![i].mu = Unlocked(@),
                                    ![i].seen = Len(markLog) + 1]
    /\ UNCHANGED <<bidwars, call, ret, now, ticks, pendingBids, table, chat, limiter, prefLog>>

\* shouldIgnoreSubGift: b.mu.RLock()
shouldIgnoreSubGiftRLock(i) ==
    /\ handlers[i].pc = "gift"
    /\ CanRLock(handlers)
    /\ handlers' = [handlers EXCEPT ![i].pc = "looking", ![i].mu = "r"]
    /\ UNCHANGED <<bidwars, call, ret, now, ticks, communityGifts, pendingBids, table, chat, limiter, markLog, prefLog>>

\* shouldIgnoreSubGift: the map is read and the function returns; the gift
\* sub is dropped or goes on to getChoice.
shouldIgnoreSubGiftReturn(i) ==
    /\ handlers[i].pc = "looking"
    /\ LET ignore == shouldIgnoreSubGift(communityGifts, handlers[i].ev, now)
       IN  handlers' = [handlers EXCEPT ![i].pc = IF ignore THEN "done" ELSE "choice",
                                        ![i].ignored = ignore, ![i].mu = Unlocked(@),
                                        ![i].seen = Len(markLog)]
    /\ UNCHANGED <<bidwars, call, ret, now, ticks, communityGifts, pendingBids, table, chat, limiter, markLog, prefLog>>

\* getChoice up to b.mu.Lock(): an event below the minimum and an event
\* whose message names an option return before the mutex is touched.
getChoiceLock(i) ==
    /\ handlers[i].pc = "choice"
    /\ \E out \in ChoiceFromMessage(bidwars, handlers[i].ev.Message, ReasonOf(handlers[i].kind)) :
          /\ ~out.panic
          /\ IF Value(handlers[i].ev) < minimumDonation \/ ~IsZero(out.value.Option)
             THEN handlers' = [handlers EXCEPT ![i].pc = "record",
                                  ![i].bid = getChoice(pendingBids, handlers[i].ev, out, now).choice]
             ELSE /\ CanLock(handlers)
                  /\ handlers' = [handlers EXCEPT ![i].pc = "lookup", ![i].mu = "w"]
    /\ UNCHANGED <<bidwars, call, ret, now, ticks, communityGifts, pendingBids, table, chat, limiter, markLog, prefLog>>

\* getChoice under the mutex: the preference is looked up and deleted, and
\* the function returns; the goroutine that records the donation is started.
getChoiceReturn(i) ==
    /\ handlers[i].pc = "lookup"
    /\ LET r == LookupPref(pendingBids, handlers[i].ev.Owner, now)
       IN  /\ pendingBids' = r.prefs
           /\ handlers' = [handlers EXCEPT ![i].pc = "record", ![i].bid = r.choice,
                                           ![i].lookup = r.lookup, ![i].prefId = r.prefId,
                                           ![i].mu = Unlocked(@)]
    /\ UNCHANGED <<bidwars, call, ret, now, ticks, communityGifts, table, chat, limiter, markLog, prefLog>>

\* dispatchBidCommand after AssignFromMessage returned a choice: a bid that
\* moved points goes on to the reply, any other calls rememberPref, which
\* takes b.mu.Lock().
rememberPrefLock(i) ==
    /\ handlers[i].pc = "reply"
    /\ IF handlers[i].total > 0
       THEN handlers' = [handlers EXCEPT ![i].pc = "say"]
       ELSE /\ CanLock(handlers)
            /\ handlers' = [handlers EXCEPT ![i].pc = "remember", ![i].mu = "w"]
    /\ UNCHANGED <<bidwars, call, ret, now, ticks, communityGifts, pendingBids, table, chat, limiter, markLog, prefLog>>

\* rememberPref under the mutex: the map is written and the function returns.
rememberPrefReturn(i) ==
    /\ handlers[i].pc = "remember"
    /\ pendingBids' = rememberPref(pendingBids, handlers[i].ev.Owner, handlers[i].bid, now, i)
    /\ prefLog' = Append(prefLog, [username |-> handlers[i].ev.Owner, choice |-> handlers[i].bid,
                                   at |-> now, id |-> i])
    /\ handlers' = [handlers EXCEPT ![i].pc = "say", ![i].mu = Unlocked(@)]
    /\ UNCHANGED <<bidwars, call, ret, now, ticks, communityGifts, table, chat, limiter, markLog>>

InitMutex ==
    /\ bidwars = DefaultCollection
    /\ call = [fn |-> "bot"]
    /\ ret = <<>>
    /\ BotIdle

NextMutex ==
    \/ \E ev \in MutexSubNotices : dispatchSubEventEnter(ev)
    \/ \E ev \in MutexMoneyDonations : dispatchMoneyDonation(ev)
    \/ \E m \in MutexBidCommands : dispatchBidCommand(m)
    \/ \E i \in 1..Len(handlers) : updateCommunityGiftLock(i)
    \/ \E i \in 1..Len(handlers) : updateCommunityGiftReturn(i)
    \/ \E i \in 1..Len(handlers) : shouldIgnoreSubGiftRLock(i)
    \/ \E i \in 1..Len(handlers) : shouldIgnoreSubGiftReturn(i)
    \/ \E i \in 1..Len(handlers) : getChoiceLock(i)
    \/ \E i \in 1..Len(handlers) : getChoiceReturn(i)
    \/ \E i \in 1..Len(handlers) : RecordDonation(i)
    \/ \E i \in 1..Len(handlers) : AssignRead(i)
    \/ \E i \in 1..Len(handlers) : AssignWrite(i)
    \/ \E i \in 1..Len(handlers) : rememberPrefLock(i)
    \/ \E i \in 1..Len(handlers) : rememberPrefReturn(i)
    \/ \E i \in 1..Len(handlers) : SayWithTotals(i)

SpecMutex == InitMutex /\ [][NextMutex]_vars

----------------------------------------------------------------------------
(* The bot handling donations below the minimum.                           *)

MinimumBidCommands == {BidMessage(Bob, BidCmd(<<"a">>))}
\* Donations of 99 cents, one cent below the minimum, with and without an
\* option in the message.
MinimumMoneyDonations == {MoneyEvent(Bob, minimumDonation - 1, <<"B">>),
                          MoneyEvent(Bob, minimumDonation - 1, <<>>)}
MinimumTicks == {1}

InitMinimum ==
    /\ bidwars = DefaultCollection
    /\ call = [fn |-> "bot"]
    /\ ret = <<>>
    /\ BotIdle

NextMinimum ==
    \/ \E m \in MinimumBidCommands : dispatchBidCommand(m)
    \/ \E ev \in MinimumMoneyDonations : dispatchMoneyDonation(ev)
    \/ \E i \in 1..Len(handlers) : GetChoice(i)
    \/ \E i \in 1..Len(handlers) : RecordDonation(i)
    \/ \E i \in 1..Len(handlers) : SayWithTotals(i)
    \/ \E i \in 1..Len(handlers) : AssignRead(i)
    \/ \E i \in 1..Len(handlers) : AssignWrite(i)
    \/ \E i \in 1..Len(handlers) : BidReply(i)
    \/ \E d \in MinimumTicks : Tick(d)

SpecMinimum == InitMinimum /\ [][NextMinimum]_vars

----------------------------------------------------------------------------
(* Parse on its own: a bid war data file is read.                          *)

\* An option of a data file with the short code code.
RawOption(code) ==
    [DisplayName |-> code, ShortCode |-> code, Aliases |-> <<ToLower(code)>>, Closed |-> FALSE]

\* A contest of a data file. summaryStyle and numberOfWinners are <<>> when
\* the file leaves the key out and <<v>> when it gives the value v.
RawContest(name, summaryStyle, numberOfWinners, codes, closed) ==
    [Name |-> name, SummaryStyle |-> summaryStyle, NumberOfWinners |-> numberOfWinners,
     Options |-> [i \in 1..Len(codes) |-> RawOption(codes[i])], Closed |-> closed]

\* The lists of options of the contests of the data files.
RawCodes == SeqsUpTo({<<"A">>, <<"B">>}, 2) \ {<<>>}

\* The data files: text that is no JSON at all, and two contests over the
\* short codes A and B, the second one with its own style as in
\* TestParseJSONConfig_DefaultValues.
RawConfigs ==
    {[wellFormed |-> w,
      Contests |-> << RawContest(<<"K","1">>, <<>>, <<>>, c1, closed),
                      RawContest(<<"K","2">>, <<"WINNERS">>, <<5>>, c2, FALSE) >>,
      RequireExplicitBid |-> FALSE] :
        w \in BOOLEAN, c1 \in RawCodes, c2 \in RawCodes, closed \in BOOLEAN}

\* Collection{}
ZeroCollection == [Contests |-> <<>>, RequireExplicitBid |-> FALSE]

\* Contest.UnmarshalJSON: the keys of the file over the defaults "ALL" and 1.
ContestUnmarshalJSON(raw) ==
    [Name |-> raw.Name,
     SummaryStyle |-> IF raw.SummaryStyle = <<>> THEN "ALL" ELSE raw.SummaryStyle[1],
     NumberOfWinners |-> IF raw.NumberOfWinners = <<>> THEN 1 ELSE raw.NumberOfWinners[1],
     Options |-> raw.Options, Closed |-> raw.Closed]

\* Parse: the Collection of the file, or an error when json.Unmarshal fails.
\* Nothing else is looked at.
Parse(rawJson) ==
    IF ~rawJson.wellFormed THEN [c |-> ZeroCollection, err |-> TRUE]
    ELSE [c |-> [Contests |-> [i \in 1..Len(rawJson.Contests) |->
                                  ContestUnmarshalJSON(rawJson.Contests[i])],
                 RequireExplicitBid |-> rawJson.RequireExplicitBid],
          err |-> FALSE]

InitParse ==
    /\ bidwars = ZeroCollection
    /\ call \in [fn : {"Parse"}, rawJson : RawConfigs]
    /\ ret = <<>>
    /\ BotIdle

\* bidwars, err := Parse(rawJson)
CallParse ==
    /\ call.fn = "Parse"
    /\ ret = <<>>
    /\ bidwars' = Parse(call.rawJson).c
    /\ ret' = <<[err |-> Parse(call.rawJson).err, found |-> <<>>]>>
    /\ UNCHANGED <<call, botVars>>

\* bidwars.FindContest(o) for an option o of the Collection that was parsed.
CallFindContest ==
    /\ call.fn = "Parse"
    /\ Len(ret) = 1 /\ ~ret[1].err /\ ret[1].found = <<>>
    /\ \E i \in 1..Len(bidwars.Contests) : \E j \in 1..Len(bidwars.Contests[i].Options) :
          ret' = <<[ret[1] EXCEPT !.found = <<[from |-> i,
                                              contest |-> FindContest(bidwars, bidwars.Contests[i].Options[j]).Name]>>]>>
    /\ UNCHANGED <<bidwars, call, botVars>>

NextParse ==
    \/ CallParse
    \/ CallFindContest

SpecParse == InitParse /\ [][NextParse]_vars

----------------------------------------------------------------------------
(* An alias regexp on its own: one call of FindStringIndex.                *)

\* The two bytes of a letter outside ASCII (e with an acute accent in UTF-8).
\* Each byte is one element of a string.
EAcute == <<"xC3", "xA9">>

\* The texts of the aliases, as alias.UnmarshalJSON compiles them.
AliasTexts == {<<"a">>, <<"a","b">>}

\* What the messages are made of: letters in either case, a digit, a space,
\* punctuation, the underscore, a letter outside ASCII, and the alias with a
\* digit behind it.
AliasPieces == {<<"a">>, <<"A">>, <<"B">>, <<"2">>, <<" ">>, <<"!">>, <<"_">>, EAcute, <<"a","2">>}

AliasMessages == {Flatten(ps) : ps \in SeqsUpTo(AliasPieces, MaxMsgLen)}

InitAlias ==
    /\ bidwars = DefaultCollection
    /\ call \in [fn : {"FindStringIndex"}, alias : AliasTexts, msg : AliasMessages]
    /\ ret = <<>>
    /\ BotIdle

\* loc := a.FindStringIndex(msg); ret holds loc[0], or -1 for nil.
CallFindStringIndex ==
    /\ call.fn = "FindStringIndex"
    /\ ret = <<>>
    /\ ret' = <<FindStringIndex(call.alias, call.msg)>>
    /\ UNCHANGED <<bidwars, call, botVars>>

NextAlias == CallFindStringIndex

SpecAlias == InitAlias /\ [][NextAlias]_vars

----------------------------------------------------------------------------
(* The donation pollers: one poll of StreamElements or of Streamlabs.      *)

\* A donation as a response lists it: its id, the second it was made in,
\* and its currency.
Tip(id, at, currency) == [id |-> id, at |-> at, currency |-> currency]

\* The donations the services know: three in dollars, one of them the
\* newest, and one in another currency.
Tips == {Tip(1, 10, "USD"), Tip(2, 12, "USD"), Tip(3, 14, "EUR"), Tip(4, 16, "USD")}

\* The responses to one request: up to MaxResponse of the donations, each at
\* most once, in any order.
Responses == {r \in SeqsUpTo(Tips, MaxResponse) : \A i, j \in 1..Len(r) : r[i] = r[j] => i = j}

\* The cursor of a poller before the poll: lastDonationTime, lastDonationID.
CursorBefore == 5

\* byCreationTime.Less as it would be if it never reported an order.
byCreationTimeLessNever(t, i, j) == FALSE

\* byCreationTime.Less
byCreationTimeLess(t, i, j) == t[i].at < t[j].at

\* byCreationTime.Swap
byCreationTimeSwap(t, i, j) == [t EXCEPT ![i] = t[j], ![j] = t[i]]

\* sort.Sort(byCreationTime(activities)) for at most six activities, which
\* package sort orders by insertion in every Go version.
RECURSIVE InsertionInnerByTime(_, _)
InsertionInnerByTime(t, j) ==
    IF j > 1 /\ byCreationTimeLess(t, j, j - 1) THEN InsertionInnerByTime(byCreationTimeSwap(t, j, j - 1), j - 1) ELSE t

RECURSIVE SortByCreationTimeFrom(_, _)
SortByCreationTimeFrom(t, i) ==
    IF i > Len(t) THEN t ELSE SortByCreationTimeFrom(InsertionInnerByTime(t, i), i + 1)

SortByCreationTime(t) == SortByCreationTimeFrom(t, 2)

\* parseDonationResponse of package streamelements: the activities sorted by
\* creation time, those in another currency than USD left out, and their times.
ParseStreamElements(resp) ==
    LET kept == SelectSeq(SortByCreationTime(resp), LAMBDA a : a.currency = "USD")
    IN  [evs |-> kept, marks |-> [i \in 1..Len(kept) |-> kept[i].at]]

\* parseDonationResponse of package streamlabs: the donations of the
\* response from the last to the first, and their ids.
ParseStreamlabs(resp) ==
    LET back == [i \in 1..Len(resp) |-> resp[Len(resp) + 1 - i]]
    IN  [evs |-> back, marks |-> [i \in 1..Len(back) |-> back[i].id]]

\* doDonationRequest after the response was parsed: the events and the new
\* cursor, which is the old one when there are no events.
DonationRequest(parsed, cursor) ==
    [evs |-> parsed.evs,
     cursor |-> IF Len(parsed.evs) = 0 THEN cursor ELSE parsed.marks[Len(parsed.marks)]]

InitPoll ==
    /\ bidwars = DefaultCollection
    /\ call \in [fn : {"poll"}, service : {"streamelements", "streamlabs"}, resp : Responses]
    /\ ret = <<>>
    /\ BotIdle

\* DonationPoller.poll of package streamelements: the cursor is set and the
\* events are handed to the callback one by one.
PollStreamElements ==
    /\ call.fn = "poll" /\ call.service = "streamelements"
    /\ ret = <<>>
    /\ LET r == DonationRequest(ParseStreamElements(call.resp), CursorBefore)
       IN  ret' = <<[delivered |-> r.evs, cursor |-> r.cursor]>>
    /\ UNCHANGED <<bidwars, call, botVars>>

\* DonationPoller.poll of package streamlabs.
PollStreamlabs ==
    /\ call.fn = "poll" /\ call.service = "streamlabs"
    /\ ret = <<>>
    /\ LET r == DonationRequest(ParseStreamlabs(call.resp), CursorBefore)
       IN  ret' = <<[delivered |-> r.evs, cursor |-> r.cursor]>>
    /\ UNCHANGED <<bidwars, call, botVars>>

NextPoll ==
    \/ PollStreamElements
    \/ PollStreamlabs

SpecPoll == InitPoll /\ [][NextPoll]_vars

----------------------------------------------------------------------------
(* Event.Value on its own: one call.                                       *)

\* The events of TestValue and those between them: every tier, with sub
\* counts and months of 0, 1 and more, with and without bits and cash.
ValueEvents ==
    {[Owner |-> Bob, Type |-> Subscription, SubCount |-> n, SubTier |-> tier, SubMonths |-> m,
      Bits |-> bits, Cash |-> cash, Message |-> <<>>] :
        tier \in {unknownTier, SubTier1, SubTier2, SubTier3, SubTierPrime},
        n \in {0, 1, 5}, m \in {0, 1, 6}, bits \in {0, 420}, cash \in {0, 501}}

InitValue ==
    /\ bidwars = DefaultCollection
    /\ call \in [fn : {"Value"}, ev : ValueEvents]
    /\ ret = <<>>
    /\ BotIdle

\* tc.ev.Value()
CallValue ==
    /\ call.fn = "Value"
    /\ ret = <<>>
    /\ ret' = <<Value(call.ev)>>
    /\ UNCHANGED <<bidwars, call, botVars>>

NextValue == CallValue

SpecValue == InitValue /\ [][NextValue]_vars

----------------------------------------------------------------------------
(* The bot with two donors: bid commands of one donor interleave with the  *)
(* appends and the bid commands of the other.                              *)

DonorsBidCommands == {BidMessage(Bob, BidCmd(<<"a">>)), BidMessage(Al, BidCmd(<<"B">>))}
DonorsMoneyDonations == {MoneyEvent(Al, 500, <<>>)}

\* The tracker sheet holds the rows of two earlier donations, one of each
\* donor, that named no option.
InitDonors ==
    /\ bidwars = DefaultCollection
    /\ call = [fn |-> "bot"]
    /\ ret = <<>>
    /\ now = 0
    /\ ticks = 0
    /\ communityGifts = EmptyMap
    /\ pendingBids = EmptyMap
    /\ table = RecordDonationRow(RecordDonationRow(<<HeaderRow>>, MoneyEvent(BOB, 500, <<>>), ZeroChoice),
                                 MoneyEvent(Al, 700, <<>>), ZeroChoice)
    /\ handlers = <<>>
    /\ chat = <<>>
    /\ limiter = [tokens |-> chatBucketSize, last |-> 0]
    /\ markLog = <<>>
    /\ prefLog = <<>>

NextDonors ==
    \/ \E m \in DonorsBidCommands : dispatchBidCommand(m)
    \/ \E ev \in DonorsMoneyDonations : dispatchMoneyDonation(ev)
    \/ \E i \in 1..Len(handlers) : GetChoice(i)
    \/ \E i \in 1..Len(handlers) : RecordDonation(i)
    \/ \E i \in 1..Len(handlers) : SayWithTotals(i)
    \/ \E i \in 1..Len(handlers) : AssignRead(i)
    \/ \E i \in 1..Len(handlers) : AssignWrite(i)
    \/ \E i \in 1..Len(handlers) : BidReply(i)

SpecDonors == InitDonors /\ [][NextDonors]_vars

----------------------------------------------------------------------------
(* The tip file Watcher: another program appends lines to a text file, and *)
(* the Watcher reads the whole file again after every write.               *)

\* logLineDelimiter
logLineDelimiter == ";"

\* The index of the first delimiter of s from position i on, or 0.
RECURSIVE DelimiterFrom(_, _)
DelimiterFrom(s, i) ==
    IF i > Len(s) THEN 0
    ELSE IF s[i] = logLineDelimiter THEN i
    ELSE DelimiterFrom(s, i + 1)

\* strings.SplitN(s, logLineDelimiter, n) for n > 0: at most n pieces, the
\* last of which is the rest of s.
RECURSIVE SplitN(_, _)
SplitN(s, n) ==
    LET d == DelimiterFrom(s, 1)
    IN  IF n = 1 \/ d = 0 THEN <<s>>
        ELSE <<SubSeq(s, 1, d - 1)>> \o SplitN(SubSeq(s, d + 1, Len(s)), n - 1)

\* strconv.Atoi: an optional sign and one decimal digit or more.
Atoi(s) ==
    LET digits == Unsigned(s)
    IN  IF digits # <<>> /\ \A k \in 1..Len(digits) : digits[k] \in Range(DigitChars)
        THEN [ok |-> TRUE, value |-> SignOf(s) * DigitsValue(digits)]
        ELSE [ok |-> FALSE, value |-> 0]

\* parseTipLogLine: the logEntry of a line, or an error when the amount is
\* not a number.
parseTipLogLine(line) ==
    LET split  == SplitN(line, 4)
        tokens == split \o [k \in 1..(4 - Len(split)) |-> <<>>]
        cents  == Atoi(tokens[2])
    IN  [ok |-> cents.ok,
         entry |-> IF cents.ok
                   THEN [ID |-> tokens[1], Cents |-> cents.value, Username |-> tokens[3], Message |-> tokens[4]]
                   ELSE [ID |-> <<>>, Cents |-> 0, Username |-> <<>>, Message |-> <<>>]]

\* The loop of Watcher.processTipLog from line i to line last of the file:
\* a line that does not parse is skipped, and an entry whose ID is not in
\* processedIDs is added to them and to the new entries.
RECURSIVE ScanTipLog(_, _, _, _, _)
ScanTipLog(lines, i, last, processedIDs, newEntries) ==
    IF i > last THEN [processedIDs |-> processedIDs, newEntries |-> newEntries]
    ELSE LET p == parseTipLogLine(lines[i])
         IN  IF ~p.ok \/ p.entry.ID \in processedIDs
             THEN ScanTipLog(lines, i + 1, last, processedIDs, newEntries)
             ELSE ScanTipLog(lines, i + 1, last, processedIDs \cup {p.entry.ID},
                             Append(newEntries, [entry |-> p.entry, line |-> i]))

\* Watcher.processTipLog when the scanner reads the file to its end.
processTipLog(lines, processedIDs) == ScanTipLog(lines, 1, Len(lines), processedIDs, <<>>)

\* Watcher.processTipLog when the scanner stops with an error after n lines
\* (a read error, or a line longer than the scanner's buffer): the IDs of
\* the lines read so far stay in processedIDs and no entry is returned.
processTipLogScanError(lines, processedIDs, n) ==
    [processedIDs |-> ScanTipLog(lines, 1, n, processedIDs, <<>>).processedIDs, newEntries |-> <<>>]

\* The lines the writing program can add: two lines of one ID, a message
\* with a delimiter in it, a line without a username and an ID, a line
\* whose amount is not a number, and an empty line.
TipLines == { <<"1",";","5",";","b">>,
              <<"1",";","7",";","c">>,
              <<"2",";","5",";","b",";","x",";","y">>,
              <<";","5">>,
              <<"3",";","x">>,
              <<>> }

\* The file holds up to MaxInitialLines lines when the Watcher is made.
InitTipfile ==
    /\ bidwars = DefaultCollection
    /\ call \in [fn : {"tipfile"}, pc : {"new"}, lines : SeqsUpTo(TipLines, MaxInitialLines),
                 processedIDs : {{}}, initialIDs : {{}}, events : {0}, reads : {0}]
    /\ ret = <<>>
    /\ BotIdle

\* The writing program appends a line. fsnotify reports the write once the
\* file is watched.
WriteLine(line) ==
    /\ call.fn = "tipfile"
    /\ Len(call.lines) < MaxFileLines
    /\ call' = [call EXCEPT !.lines = Append(@, line),
                            !.events = IF call.pc = "watching" THEN @ + 1 ELSE @]
    /\ UNCHANGED <<bidwars, ret, botVars>>

\* NewWatcher up to the end of its read of the file: processedIDs takes the
\* IDs of the lines that are in the file, and nothing is sent.
NewWatcher ==
    /\ call.fn = "tipfile" /\ call.pc = "new"
    /\ LET r == processTipLog(call.lines, call.processedIDs)
       IN  call' = [call EXCEPT !.pc = "add", !.processedIDs = r.processedIDs,
                                !.initialIDs = r.processedIDs]
    /\ UNCHANGED <<bidwars, ret, botVars>>

\* NewWatcher when its read of the file fails: it returns the error and no
\* Watcher.
NewWatcherFails ==
    /\ call.fn = "tipfile" /\ call.pc = "new"
    /\ call' = [call EXCEPT !.pc = "failed"]
    /\ UNCHANGED <<bidwars, ret, botVars>>

\* The rest of NewWatcher: the goroutine is started and the file is watched.
WatcherAdd ==
    /\ call.fn = "tipfile" /\ call.pc = "add"
    /\ call' = [call EXCEPT !.pc = "watching"]
    /\ UNCHANGED <<bidwars, ret, botVars>>

\* The donation.Event the goroutine sends for a new entry, with the number
\* of the read and of the line it comes from.
TipEvent(e, read) ==
    [d |-> MoneyEvent(e.entry.Username, e.entry.Cents, e.entry.Message),
     ID |-> e.entry.ID, read |-> read, line |-> e.line]

\* The goroutine of the Watcher on a write event: the whole file is read
\* again and an Event is sent on C for each new entry, in their order.
ReRead ==
    /\ call.fn = "tipfile" /\ call.pc = "watching" /\ call.events > 0
    /\ LET r == processTipLog(call.lines, call.processedIDs)
       IN  /\ call' = [call EXCEPT !.events = @ - 1, !.reads = @ + 1, !.processedIDs = r.processedIDs]
           /\ ret' = ret \o [k \in 1..Len(r.newEntries) |-> TipEvent(r.newEntries[k], call.reads + 1)]
    /\ UNCHANGED <<bidwars, botVars>>

\* The goroutine of the Watcher on a write event when the scanner stops with
\* an error after n lines: the error is logged and nothing is sent.
ReReadFails(n) ==
    /\ call.fn = "tipfile" /\ call.pc = "watching" /\ call.events > 0
    /\ n \in 0..Len(call.lines)
    /\ LET r == processTipLogScanError(call.lines, call.processedIDs, n)
       IN  call' = [call EXCEPT !.events = @ - 1, !.reads = @ + 1, !.processedIDs = r.processedIDs]
    /\ UNCHANGED <<bidwars, ret, botVars>>

NextTipfile ==
    \/ \E line \in TipLines : WriteLine(line)
    \/ NewWatcher
    \/ NewWatcherFails
    \/ WatcherAdd
    \/ ReRead
    \/ \E n \in 0..MaxFileLines : ReReadFails(n)

SpecTipfile == InitTipfile /\ [][NextTipfile]_vars

----------------------------------------------------------------------------
(* Tallier.AssignFromMessage on its own: one call against a table.         *)

\* UpdateStats{}
ZeroStats == [Choice |-> ZeroChoice, Count |-> 0, TotalValue |-> 0]

\* The donor check as it would be if it let every donor through.
DonorMissingNever(donor) == FALSE

\* if donor == ""
DonorMissing(donor) == donor = <<>>

\* The check of the choice as it would be if it let the zero Option through.
UnresolvedNever(choice) == FALSE

\* if choice.Option.IsZero()
Unresolved(choice) == IsZero(choice.Option)

\* The condition of the write as it would be if the write were always made.
ShouldWriteAlways(matchedRows) == TRUE

\* if len(matchedRows) > 0
ShouldWrite(matchedRows) == Len(matchedRows) > 0

\* Tallier.AssignFromMessage on the table tbl: the outcomes it can have, each
\* with the UpdateStats and the error it returns, the table it leaves, the
\* patch it made, and how many reads and writes of the table it issued.
AssignFromMessage(tbl, donor, message) ==
    IF DonorMissing(donor)
    THEN {[stats |-> ZeroStats, err |-> TRUE, panic |-> FALSE, reads |-> 0, writes |-> 0,
           patch |-> <<>>, table |-> tbl]}
    ELSE {IF out.panic
          THEN [stats |-> ZeroStats, err |-> FALSE, panic |-> TRUE, reads |-> 0, writes |-> 0,
                patch |-> <<>>, table |-> tbl]
          ELSE IF Unresolved(out.value)
          THEN [stats |-> ZeroStats, err |-> FALSE, panic |-> FALSE, reads |-> 0, writes |-> 0,
                patch |-> <<>>, table |-> tbl]
          ELSE LET r == makeChoice(GetTable(tbl), donor, out.value)
                   w == ShouldWrite(r.updatedRows)
               IN  [stats |-> [Choice |-> out.value, Count |-> Len(r.updatedRows),
                               TotalValue |-> SumCents(r.updatedRows)],
                    err |-> FALSE, panic |-> FALSE, reads |-> 1, writes |-> IF w THEN 1 ELSE 0,
                    patch |-> r.vr.Values,
                    table |-> IF w THEN WriteTable(tbl, r.vr) ELSE tbl]
          : out \in ChoiceFromMessage(bidwars, message, FromBidCommand)}

\* A header row that labels the first three columns only.
ShortHeaderRow == SubSeq(HeaderRow, 1, 3)

\* The tables a call can meet: a header and up to MaxSnapshotRows rows, each
\* as a read returns it.
Ledgers == {<<h>> \o [i \in 1..Len(rows) |-> TrimRow(rows[i])] :
                h \in {HeaderRow, ShortHeaderRow},
                rows \in SeqsUpTo(SnapshotRows, MaxSnapshotRows)}

\* The donors of a call: the donors of the rows, a name spelled like the
\* header of the first column, and the empty name.
AssignDonors == Donors \cup {<<"C","O","N","T","R","I","B","U","T","O","R">>, <<>>}

\* The messages of a call: two options, no option, and the random directive.
AssignMessages == {BidCmd(<<"a">>), BidCmd(<<"B">>), BidCmd(<<>>), BidCmd(RandomWord)}

InitAssign ==
    /\ bidwars = DefaultCollection
    /\ call \in [fn : {"AssignFromMessage"}, donor : AssignDonors, message : AssignMessages,
                 table : Ledgers]
    /\ ret = <<>>
    /\ table = call.table
    /\ now = 0
    /\ ticks = 0
    /\ communityGifts = EmptyMap
    /\ pendingBids = EmptyMap
    /\ handlers = <<>>
    /\ chat = <<>>
    /\ limiter = [tokens |-> chatBucketSize, last |-> 0]
    /\ markLog = <<>>
    /\ prefLog = <<>>

CallAssignFromMessage ==
    /\ call.fn = "AssignFromMessage"
    /\ ret = <<>>
    /\ \E out \in AssignFromMessage(table, call.donor, call.message) :
          /\ ret' = <<out>>
          /\ table' = out.table
    /\ UNCHANGED <<bidwars, call, now, ticks, communityGifts, pendingBids, handlers, chat,
                   limiter, markLog, prefLog>>

NextAssign == CallAssignFromMessage

SpecAssign == InitAssign /\ [][NextAssign]_vars

----------------------------------------------------------------------------
(* Tallier.GetTotals and Tallier.TotalsForContest.                         *)

\* strconv.ParseFloat reads the string: here, a decimal with or without a
\* sign. The strings of the model that are not such decimals are not numbers
\* to strconv.ParseFloat either.
ParsesAsFloat(s) ==
    LET u    == Unsigned(s)
        dots == {i \in 1..Len(u) : u[i] = "."}
    IN  /\ Cardinality(dots) <= 1
        /\ Len(u) > Cardinality(dots)
        /\ \A i \in 1..Len(u) : i \in dots \/ u[i] \in Range(DigitChars)

\* optsMap of GetTotals: the Option of a short code. Of two options with one
\* short code the later one is kept.
OptsMap(c) ==
    LET all == Flatten([i \in 1..Len(c.Contests) |-> c.Contests[i].Options])
        codes == {all[i].ShortCode : i \in 1..Len(all)}
    IN  [code \in codes |-> all[CHOOSE i \in 1..Len(all) :
                                   /\ all[i].ShortCode = code
                                   /\ \A j \in 1..Len(all) : all[j].ShortCode = code => j <= i]]

\* The loop of GetTotals from column i on, with the totals found so far.
RECURSIVE GetTotalsFrom(_, _, _, _, _)
GetTotalsFrom(c, rawNames, rawTotals, i, totals) ==
    IF i > Len(rawNames) \/ i > Len(rawTotals) THEN [err |-> FALSE, totals |-> totals]
    ELSE IF rawTotals[i] = Str(<<>>) THEN GetTotalsFrom(c, rawNames, rawTotals, i + 1, totals)
    ELSE IF rawNames[i].k # "str" THEN [err |-> TRUE, totals |-> <<>>]
    ELSE IF rawTotals[i].k # "str" THEN [err |-> TRUE, totals |-> <<>>]
    ELSE IF rawNames[i].s \notin DOMAIN OptsMap(c)
    THEN GetTotalsFrom(c, rawNames, rawTotals, i + 1, totals)
    ELSE IF ~ParsesAsFloat(rawTotals[i].s) THEN [err |-> TRUE, totals |-> <<>>]
    ELSE GetTotalsFrom(c, rawNames, rawTotals, i + 1,
                       Append(totals, [Option |-> OptsMap(c)[rawNames[i].s],
                                       Value |-> ParseCents(rawTotals[i].s)]))

\* Tallier.GetTotals on the two columns of the summary.
GetTotals(c, rawNames, rawTotals) == GetTotalsFrom(c, rawNames, rawTotals, 1, <<>>)

\* byCents.Less
Less(b, i, j) == b[i].Value < b[j].Value

\* sort.Reverse(byCents(b)).Less
ReverseLess(b, i, j) == Less(b, j, i)

\* byCents.Swap
Swap(b, i, j) == [b EXCEPT ![i] = b[j], ![j] = b[i]]

\* The inner loop of insertionSort: the element at j moves down while it is
\* less than the one before it.
RECURSIVE InsertionInner(_, _)
InsertionInner(b, j) ==
    IF j > 1 /\ ReverseLess(b, j, j - 1) THEN InsertionInner(Swap(b, j, j - 1), j - 1) ELSE b

RECURSIVE InsertionSortFrom(_, _)
InsertionSortFrom(b, i) ==
    IF i > Len(b) THEN b ELSE InsertionSortFrom(InsertionInner(b, i), i + 1)

\* insertionSort of package sort.
insertionSort(b) == InsertionSortFrom(b, 2)

\* The ShellSort pass with gap 6 that quickSort of package sort (before Go
\* 1.19) makes ahead of insertionSort on a slice of at most 12 elements.
RECURSIVE ShellPassFrom(_, _)
ShellPassFrom(b, i) ==
    IF i > Len(b) THEN b
    ELSE ShellPassFrom(IF ReverseLess(b, i, i - 6) THEN Swap(b, i, i - 6) ELSE b, i + 1)

\* sort.Sort(sort.Reverse(byCents(b))) for at most 12 elements: the orders
\* the build can produce. sort.Sort is not stable; up to Go 1.18 (go.mod
\* names 1.16) it makes the ShellSort pass and then insertionSort, from Go
\* 1.19 on insertionSort alone.
SortReverse(b) == {insertionSort(ShellPassFrom(b, 7)), insertionSort(b)}

\* Totals{}
ZeroTotals == [totals |-> <<>>, summaryStyle |-> "", numberOfWinners |-> 0]

\* Tallier.TotalsForContest on the two columns of the summary: the outcomes
\* it can have.
TotalsForContest(c, contest, rawNames, rawTotals) ==
    LET g == GetTotals(c, rawNames, rawTotals)
        optsByName == {contest.Options[i].ShortCode : i \in 1..Len(contest.Options)}
        totalsForContest == SelectSeq(g.totals, LAMBDA tot : tot.Option.ShortCode \in optsByName)
    IN  IF g.err THEN {[err |-> TRUE, totals |-> ZeroTotals]}
        ELSE {[err |-> FALSE,
               totals |-> [totals |-> sorted, summaryStyle |-> contest.SummaryStyle,
                           numberOfWinners |-> contest.NumberOfWinners]]
              : sorted \in SortReverse(totalsForContest)}

\* Option i of the contests of numbered options.
NumberedOption(i, closed) ==
    [DisplayName |-> <<"O", DigitChars[i + 1]>>, ShortCode |-> <<"O", DigitChars[i + 1]>>,
     Aliases |-> <<>>, Closed |-> closed]

\* A Collection of one Contest of n numbered options, those of closedSet closed.
NumberedCollection(n, style, winners, closedSet) ==
    [Contests |-> << [Name |-> <<"K","n">>, SummaryStyle |-> style, NumberOfWinners |-> winners,
                      Options |-> [i \in 1..n |-> NumberedOption(i, i \in closedSet)], Closed |-> FALSE] >>,
     RequireExplicitBid |-> FALSE]

\* A Collection of one Contest of MaxOptions open options.
BigCollection == NumberedCollection(MaxOptions, "LAST_PLACE", 1, {})

\* The cells of the names column: three short codes, a name of no option,
\* and a number.
NameCells == {Str(<<"A">>), Str(<<"A","B">>), Str(<<"B">>), Str(<<"z">>), Num(7)}

\* The cells of the totals column: two amounts, an empty cell, text that is
\* no number, and a number.
TotalCells == {Str(<<"1","0",".","0","0">>), Str(<<"9",".","9","4">>), Str(<<>>), Str(<<"x">>), Num(500)}

\* The summaries of the sheet over these cells, of at most MaxCols columns.
\* A read leaves out the trailing empty cells of a column.
Summaries ==
    {[rawNames |-> [i \in 1..Len(cols) |-> cols[i][1]],
      rawTotals |-> TrimRow([i \in 1..Len(cols) |-> cols[i][2]])]
     : cols \in SeqsUpTo(NameCells \X TotalCells, MaxCols)}

\* The summaries of the large contest: each option with one of two amounts.
BigSummaries ==
    {[rawNames |-> [i \in 1..MaxOptions |-> Str(NumberedOption(i, FALSE).ShortCode)], rawTotals |-> tot]
     : tot \in [1..MaxOptions -> {Str(<<"5",".","0","0">>), Str(<<"9",".","0","0">>)}]}

InitTotals ==
    /\ \/ /\ bidwars = DefaultCollection
          /\ call \in {[fn |-> f[1], contest |-> f[2], rawNames |-> sm.rawNames, rawTotals |-> sm.rawTotals]
                       : f \in {<<"GetTotals", 0>>, <<"TotalsForContest", 1>>, <<"TotalsForContest", 2>>},
                         sm \in Summaries}
       \/ /\ bidwars = BigCollection
          /\ call \in {[fn |-> "TotalsForContest", contest |-> 1,
                        rawNames |-> sm.rawNames, rawTotals |-> sm.rawTotals] : sm \in BigSummaries}
    /\ ret = <<>>
    /\ BotIdle

CallGetTotals ==
    /\ call.fn = "GetTotals"
    /\ ret = <<>>
    /\ ret' = <<GetTotals(bidwars, call.rawNames, call.rawTotals)>>
    /\ UNCHANGED <<bidwars, call, botVars>>

CallTotalsForContest ==
    /\ call.fn = "TotalsForContest"
    /\ ret = <<>>
    /\ \E out \in TotalsForContest(bidwars, bidwars.Contests[call.contest], call.rawNames, call.rawTotals) :
          ret' = <<out>>
    /\ UNCHANGED <<bidwars, call, botVars>>

NextTotals == CallGetTotals \/ CallTotalsForContest

SpecTotals == InitTotals /\ [][NextTotals]_vars

----------------------------------------------------------------------------
(* Totals.Describe.                                                        *)

\* The decimal digits of a natural number, as fmt's %d writes it.
RECURSIVE IntString(_)
IntString(n) == IF n < 10 THEN <<DigitChars[n + 1]>> ELSE IntString(n \div 10) \o <<DigitChars[(n % 10) + 1]>>

\* CentsValue.String: the points with 2 decimal places.
RECURSIVE CentsString(_)
CentsString(v) ==
    IF v < 0 THEN <<"-">> \o CentsString(0 - v)
    ELSE IntString(v \div 100) \o <<".", DigitChars[((v % 100) \div 10) + 1], DigitChars[(v % 10) + 1]>>

\* strings.Join(names, ", ")
RECURSIVE JoinNames(_)
JoinNames(names) ==
    IF names = <<>> THEN <<>>
    ELSE IF Len(names) = 1 THEN names[1]
    ELSE names[1] \o <<",", " ">> \o JoinNames(Tail(names))

\* The display names of a list of options.
DisplayNames(opts) == [i \in 1..Len(opts) |-> opts[i].DisplayName]

\* Totals.openTotals if it kept the closed options.
openTotalsAll(tt) == tt.totals

\* Totals.openTotals
openTotals(tt) == SelectSeq(tt.totals, LAMBDA t : ~t.Option.Closed)

\* The rank a new bucket gets in the loop of computeRanks if buckets are
\* numbered one after the other.
NewRankDense(idx, ranks) == Len(ranks) + 1

\* The rank a new bucket gets in the loop of computeRanks: the place of its
\* first total in the sorted totals.
NewRank(idx, ranks) == idx

\* The loop of computeRanks over the sorted open totals from place idx on.
RECURSIVE RanksFrom(_, _, _)
RanksFrom(sorted, idx, ranks) ==
    IF idx > Len(sorted) THEN ranks
    ELSE LET t  == sorted[idx]
             r1 == IF ranks = <<>> \/ ranks[Len(ranks)].value # t.Value
                   THEN Append(ranks, [rank |-> NewRank(idx, ranks), value |-> t.Value, options |-> <<>>])
                   ELSE ranks
             r2 == [r1 EXCEPT ![Len(r1)].options = Append(@, t.Option)]
         IN  RanksFrom(sorted, idx + 1, r2)

\* Totals.computeRanks: the lists of optionRank it can return.
computeRanks(tt) ==
    IF openTotals(tt) = <<>> THEN {<<>>}
    ELSE {RanksFrom(sorted, 1, <<>>) : sorted \in SortReverse(openTotals(tt))}

\* No optionRank.
NoRank == [rank |-> 0, value |-> 0, options |-> <<>>]

\* findRankForBid if it never found the bid.
findRankForBidNone(ranks, bid) == NoRank

\* findRankForBid; NoRank stands for nil.
findRankForBid(ranks, bid) ==
    LET found == {i \in 1..Len(ranks) :
                    \E j \in 1..Len(ranks[i].options) : ranks[i].options[j].ShortCode = bid.ShortCode}
    IN  IF found = {} THEN NoRank
        ELSE ranks[CHOOSE i \in found : \A k \in found : i <= k]

\* "<name>: <value>" for the only open option.
OnlyOption(ranks) == ranks[1].options[1].DisplayName \o <<":", " ">> \o CentsString(ranks[1].value)

\* "<name> is currently #<rank>. <desc>"
CurrentlyRanked(lastBid, lastBidRank, desc) ==
    lastBid.DisplayName \o <<" ","i","s"," ","c","u","r","r","e","n","t","l","y"," ","#">> \o IntString(lastBidRank.rank) \o <<".", " ">> \o desc

\* diff of describeLastPlace if it were taken against the first bucket.
LastPlaceDiffToFirst(ranks) ==
    IF Len(ranks) > 1 THEN ranks[1].value - ranks[Len(ranks)].value ELSE 0

\* diff of describeLastPlace
LastPlaceDiff(ranks) ==
    IF Len(ranks) > 1 THEN ranks[Len(ranks) - 1].value - ranks[Len(ranks)].value ELSE 0

\* lastBidIsLastPlace of describeLastPlace if it were never true.
LastBidIsLastPlaceNever(lastBidRank, lastPlaceRank) == FALSE

\* lastBidIsLastPlace of describeLastPlace
LastBidIsLastPlace(lastBidRank, lastPlaceRank) == lastBidRank.rank = lastPlaceRank.rank

\* Totals.describeLastPlace for the ranks computeRanks returned.
LastPlaceFor(ranks, lastBid) ==
    IF Len(ranks) = 0 THEN <<>>
    ELSE IF Len(ranks) = 1 /\ Len(ranks[1].options) = 1 THEN OnlyOption(ranks)
    ELSE LET lastPlaceRank == ranks[Len(ranks)]
             diff == LastPlaceDiff(ranks)
             desc == (IF Len(lastPlaceRank.options) > 1
                      THEN <<"T","i","e"," ","f","o","r"," ","l","a","s","t"," ","p","l","a","c","e",":"," ">>
                      ELSE <<"L","a","s","t"," ","p","l","a","c","e",":"," ">>)
                     \o JoinNames(DisplayNames(lastPlaceRank.options))
                     \o <<" ","(","d","o","w","n"," ","b","y"," ">> \o CentsString(diff) \o <<")">>
             lastBidRank == findRankForBid(ranks, lastBid)
         IN  IF IsZero(lastBid) THEN desc
             ELSE IF lastBidRank = NoRank THEN desc
             ELSE IF Len(lastPlaceRank.options) = 1 /\ LastBidIsLastPlace(lastBidRank, lastPlaceRank)
             THEN lastBid.DisplayName \o <<" ","i","s"," ","s","t","i","l","l"," ","i","n"," ","l","a","s","t"," ","p","l","a","c","e"," ","(","d","o","w","n"," ","b","y"," ">>
                  \o CentsString(diff) \o <<")"," ","u","s","e","d","S","h","a","m","e">>
             ELSE IF LastBidIsLastPlace(lastBidRank, lastPlaceRank) THEN desc
             ELSE CurrentlyRanked(lastBid, lastBidRank, desc)

\* Totals.describeLastPlace: the strings it can return.
describeLastPlace(tt, lastBid) == {LastPlaceFor(ranks, lastBid) : ranks \in computeRanks(tt)}

\* diff of describeFirstPlace if it were taken against the last bucket.
FirstPlaceDiffToLast(ranks) ==
    IF Len(ranks) > 1 THEN ranks[1].value - ranks[Len(ranks)].value ELSE 0

\* diff of describeFirstPlace
FirstPlaceDiff(ranks) ==
    IF Len(ranks) > 1 THEN ranks[1].value - ranks[2].value ELSE 0

\* Totals.describeFirstPlace for the ranks computeRanks returned.
FirstPlaceFor(ranks, lastBid) ==
    IF Len(ranks) = 0 THEN <<>>
    ELSE IF Len(ranks) = 1 /\ Len(ranks[1].options) = 1 THEN OnlyOption(ranks)
    ELSE LET firstPlaceRank == ranks[1]
             diff == FirstPlaceDiff(ranks)
             desc == (IF Len(firstPlaceRank.options) > 1
                      THEN <<"T","i","e"," ","f","o","r"," ","f","i","r","s","t"," ","p","l","a","c","e",":"," ">>
                      ELSE <<"F","i","r","s","t"," ","p","l","a","c","e",":"," ">>)
                     \o JoinNames(DisplayNames(firstPlaceRank.options))
                     \o <<" ","(","u","p"," ","b","y"," ">> \o CentsString(diff) \o <<")">>
             lastBidRank == findRankForBid(ranks, lastBid)
             lastBidIsFirstPlace == lastBidRank.rank = firstPlaceRank.rank
         IN  IF IsZero(lastBid) THEN desc
             ELSE IF lastBidRank = NoRank THEN desc
             ELSE IF Len(firstPlaceRank.options) = 1 /\ lastBidIsFirstPlace
             THEN lastBid.DisplayName \o <<" ","i","s"," ","i","n"," ","f","i","r","s","t"," ","p","l","a","c","e"," ","(","u","p"," ","b","y"," ">>
                  \o CentsString(diff) \o <<")"," ","u","s","e","d","U">>
             ELSE IF lastBidIsFirstPlace THEN desc
             ELSE CurrentlyRanked(lastBid, lastBidRank, desc)

\* Totals.describeFirstPlace: the strings it can return.
describeFirstPlace(tt, lastBid) == {FirstPlaceFor(ranks, lastBid) : ranks \in computeRanks(tt)}

\* The loop of describeWinners if it stopped at n names.
RECURSIVE LeadingOptNamesTruncated(_, _, _, _)
LeadingOptNamesTruncated(ranks, i, names, n) ==
    IF i > Len(ranks) \/ Len(names) >= n THEN names
    ELSE LET more == names \o DisplayNames(ranks[i].options)
         IN  LeadingOptNamesTruncated(ranks, i + 1, SubSeq(more, 1, IF Len(more) < n THEN Len(more) ELSE n), n)

\* The loop of describeWinners from bucket i on: the names of whole buckets
\* until there are at least n of them.
RECURSIVE LeadingOptNames(_, _, _, _)
LeadingOptNames(ranks, i, names, n) ==
    IF i > Len(ranks) THEN names
    ELSE LET more == names \o DisplayNames(ranks[i].options)
         IN  IF Len(more) >= n THEN more ELSE LeadingOptNames(ranks, i + 1, more, n)

\* Totals.describeWinners for the ranks computeRanks returned.
WinnersFor(ranks, lastBid, numberOfWinners) ==
    IF Len(ranks) = 0 THEN <<>>
    ELSE IF Len(ranks) = 1 /\ Len(ranks[1].options) = 1 THEN OnlyOption(ranks)
    ELSE LET desc == <<"C","u","r","r","e","n","t"," ","t","o","p"," ">> \o IntString(numberOfWinners) \o <<":", " ">>
                     \o JoinNames(LeadingOptNames(ranks, 1, <<>>, numberOfWinners))
             lastBidRank == findRankForBid(ranks, lastBid)
         IN  IF IsZero(lastBid) THEN desc
             ELSE IF lastBidRank = NoRank THEN desc
             ELSE CurrentlyRanked(lastBid, lastBidRank, desc)

\* Totals.describeWinners: the strings it can return.
describeWinners(tt, lastBid) == {WinnersFor(ranks, lastBid, tt.numberOfWinners) : ranks \in computeRanks(tt)}

\* The largest value of the open totals, at least 0.
RECURSIVE MaxValueFrom(_, _, _)
MaxValueFrom(open, i, maxValue) ==
    IF i > Len(open) THEN maxValue
    ELSE MaxValueFrom(open, i + 1, IF open[i].Value > maxValue THEN open[i].Value ELSE maxValue)

\* Totals.describeAll
describeAll(tt) ==
    LET open == openTotals(tt)
        maxValue == MaxValueFrom(open, 1, 0)
        totalStr(t) == t.Option.DisplayName \o <<":", " ">> \o CentsString(t.Value)
                       \o (IF t.Value < maxValue
                           THEN <<" ","(","d","o","w","n"," ","b","y"," ">> \o CentsString(maxValue - t.Value) \o <<")">>
                           ELSE <<>>)
    IN  JoinNames([i \in 1..Len(open) |-> totalStr(open[i])])

\* Totals.Describe: the strings it can return.
Describe(tt, lastBid) ==
    CASE tt.summaryStyle = "LAST_PLACE"  -> describeLastPlace(tt, lastBid)
      [] tt.summaryStyle = "FIRST_PLACE" -> describeFirstPlace(tt, lastBid)
      [] tt.summaryStyle = "WINNERS"     -> IF tt.numberOfWinners = 1 THEN describeFirstPlace(tt, lastBid)
                                            ELSE describeWinners(tt, lastBid)
      [] OTHER                           -> {describeAll(tt)}

\* The styles of a contest with the numbers of winners it is set up with.
Styles ==
    {<<"ALL", 1>>, <<"FIRST_PLACE", 1>>, <<"LAST_PLACE", 1>>, <<"WINNERS", 1>>, <<"WINNERS", 2>>, <<"WINNERS", 3>>}

\* The texts of a total cell of the summary: empty, three amounts, and an
\* amount below zero.
TotalTexts ==
    {<<>>, <<"9",".","9","4">>, <<"1","0",".","0","0">>, <<"1","3",".","5","0">>, <<"-","1",".","5","0">>}

\* The Collections and summaries of the contests described: one contest of
\* MaxRanked numbered options of which the last two may be closed, with one
\* total cell per option, and the large contest with its summaries.
DescribeInputs ==
    {[collection |-> NumberedCollection(MaxRanked, st[1], st[2], closedSet),
      rawNames |-> [i \in 1..MaxRanked |-> Str(NumberedOption(i, FALSE).ShortCode)],
      rawTotals |-> TrimRow([i \in 1..MaxRanked |-> Str(texts[i])])]
     : st \in Styles, closedSet \in SUBSET {MaxRanked - 1, MaxRanked}, texts \in [1..MaxRanked -> TotalTexts]}
    \cup {[collection |-> BigCollection, rawNames |-> sm.rawNames, rawTotals |-> sm.rawTotals]
          : sm \in BigSummaries}

\* The options Describe can be asked about: none, and the options of the
\* contest, open or closed.
LastBids(contest) == {ZeroOption} \cup Range(contest.Options)

\* A call of computeRanks or of Describe on Totals that TotalsForContest
\* returned for the contest.
InitDescribe ==
    /\ \E in \in DescribeInputs :
          /\ bidwars = in.collection
          /\ \E out \in TotalsForContest(in.collection, in.collection.Contests[1], in.rawNames, in.rawTotals),
                fn \in {"computeRanks", "Describe"}, lastBid \in LastBids(in.collection.Contests[1]) :
                /\ ~out.err
                /\ fn = "computeRanks" => lastBid = ZeroOption
                /\ call = [fn |-> fn, tt |-> out.totals, lastBid |-> lastBid]
    /\ ret = <<>>
    /\ BotIdle

CallComputeRanks ==
    /\ call.fn = "computeRanks"
    /\ ret = <<>>
    /\ \E ranks \in computeRanks(call.tt) : ret' = <<ranks>>
    /\ UNCHANGED <<bidwars, call, botVars>>

CallDescribe ==
    /\ call.fn = "Describe"
    /\ ret = <<>>
    /\ \E msg \in Describe(call.tt, call.lastBid) : ret' = <<msg>>
    /\ UNCHANGED <<bidwars, call, botVars>>

NextDescribe == CallComputeRanks \/ CallDescribe

SpecDescribe == InitDescribe /\ [][NextDescribe]_vars

----------------------------------------------------------------------------
(* The matcher on its own: one call of ChoiceFromMessage.                  *)

InitMatch ==
    /\ bidwars \in Collections
    /\ call \in [fn : {"ChoiceFromMessage"}, msg : Messages, reason : ChoiceReasons]
    /\ ret = <<>>
    /\ BotIdle

CallChoiceFromMessage ==
    /\ call.fn = "ChoiceFromMessage"
    /\ ret = <<>>
    /\ \E out \in ChoiceFromMessage(bidwars, call.msg, call.reason) : ret' = <<out>>
    /\ UNCHANGED <<bidwars, call, botVars>>

NextMatch == CallChoiceFromMessage

SpecMatch == InitMatch /\ [][NextMatch]_vars

----------------------------------------------------------------------------
(* makeChoice on its own: one call.                                        *)

InitMakeChoice ==
    /\ bidwars = DefaultCollection
    /\ call \in [fn : {"makeChoice"}, vr : Snapshots,
                 donor : Donors \cup {<<"C","O","N","T","R","I","B","U","T","O","R">>},
                 choice : BidChoices]
    /\ ret = <<>>
    /\ BotIdle

CallMakeChoice ==
    /\ call.fn = "makeChoice"
    /\ ret = <<>>
    /\ ret' = <<makeChoice(call.vr, call.donor, call.choice)>>
    /\ UNCHANGED <<bidwars, call, botVars>>

NextMakeChoice == CallMakeChoice

SpecMakeChoice == InitMakeChoice /\ [][NextMakeChoice]_vars

----------------------------------------------------------------------------
(* Properties of the matcher.                                              *)

\* The call of ChoiceFromMessage has returned or panicked.
MatchDone == call.fn = "ChoiceFromMessage" /\ ret # <<>>

\* The open options of the non-closed contests, as a set, read off the Collection.
OpenOptionSet(c) ==
    {o \in UNION {Range(con.Options) : con \in {k \in Range(c.Contests) : ~k.Closed}} : ~o.Closed}

\* The position of an option in catalog order: <<contest, option>>.
CatalogPos(c, o) ==
    CHOOSE p \in {<<i, j>> : i \in 1..Len(c.Contests), j \in 1..2} :
        /\ p[2] <= Len(c.Contests[p[1]].Options)
        /\ c.Contests[p[1]].Options[p[2]] = o

\* Every match of an alias of an open option in msg: <<offset, contest, option, alias>>.
AliasMatches(c, msg) ==
    {<<off, CatalogPos(c, o)[1], CatalogPos(c, o)[2], a>> :
        <<off, o, a>> \in {m \in (0..Len(msg)) \X OpenOptionSet(c) \X (1..2) :
                              /\ m[3] <= Len(m[2].Aliases)
                              /\ AliasMatchesAt(m[2].Aliases[m[3]], msg, m[1])}}

\* Lexicographic order on tuples of four integers.
LexLeq(m, n) ==
    \/ m[1] < n[1]
    \/ m[1] = n[1] /\ m[2] < n[2]
    \/ m[1] = n[1] /\ m[2] = n[2] /\ m[3] < n[3]
    \/ m[1] = n[1] /\ m[2] = n[2] /\ m[3] = n[3] /\ m[4] <= n[4]

\* The option of the match with the smallest offset, the first in catalog
\* order among those at that offset.
EarliestMatchOption(c, msg) ==
    LET M == AliasMatches(c, msg)
        best == CHOOSE m \in M : \A n \in M : LexLeq(m, n)
    IN  c.Contests[best[2]].Options[best[3]]

\* C6: past the explicit-bid-only gate, when some alias of an open option
\* matches the message, ChoiceFromMessage returns the option whose alias match
\* starts at the smallest offset, and among matches that start at the same
\* offset the option that comes first in catalog order.
C6_EarliestMatchWins ==
    (MatchDone /\ ~ExplicitBidOnly(bidwars, call.reason) /\ AliasMatches(bidwars, call.msg) # {})
        => /\ ~ret[1].panic
           /\ ret[1].value.Option = EarliestMatchOption(bidwars, call.msg)

\* Two different options match at the same, smallest offset and the first of
\* them in catalog order was returned.
C6_Witness ==
    /\ MatchDone /\ ~ExplicitBidOnly(bidwars, call.reason)
    /\ \E m \in AliasMatches(bidwars, call.msg), n \in AliasMatches(bidwars, call.msg) :
          /\ m[1] = n[1] /\ <<m[2], m[3]>> # <<n[2], n[3]>>
          /\ \A k \in AliasMatches(bidwars, call.msg) : m[1] <= k[1]
          /\ LexLeq(m, n)
          /\ ret[1].value.Option = bidwars.Contests[m[2]].Options[m[3]]

\* C7: in explicit-bid-only mode a call with any reason other than
\* FromBidCommand returns the empty Choice, whatever the message holds.
C7_ExplicitOnlyReturnsEmpty ==
    (MatchDone /\ bidwars.RequireExplicitBid /\ call.reason # FromBidCommand)
        => ret[1] = Returned([Option |-> ZeroOption, Reason |-> <<>>])

\* In explicit-bid-only mode, a chat message that names an open option and
\* holds the random directive got the empty Choice.
C7_Witness ==
    /\ MatchDone /\ bidwars.RequireExplicitBid /\ call.reason = FromChatMessage
    /\ AliasMatches(bidwars, call.msg) # {}
    /\ RandomDirectiveMatches(call.msg)
    /\ IsZero(ret[1].value.Option)

\* The call is one that picks at random: past the gate, the random directive
\* is in the message and no alias of an open option matches.
RandomCase ==
    /\ call.fn = "ChoiceFromMessage"
    /\ ~ExplicitBidOnly(bidwars, call.reason)
    /\ RandomDirectiveMatches(call.msg)
    /\ AliasMatches(bidwars, call.msg) = {}

\* C8: with the random directive and no alias match, every open option of a
\* non-closed contest is a possible result of the call, and the call returns
\* nothing else: no closed option and no option of a closed contest.
C8_RandomPicksExactlyOpenOptions ==
    RandomCase =>
        /\ \A o \in OpenOptionSet(bidwars) :
              \E out \in ChoiceFromMessage(bidwars, call.msg, call.reason) :
                  ~out.panic /\ out.value.Option = o
        /\ (ret # <<>> /\ ~ret[1].panic) => ret[1].value.Option \in OpenOptionSet(bidwars)

\* A random pick returned the last open option while a contest before it is
\* closed and holds an option that is not.
C8_Witness ==
    /\ RandomCase /\ ret # <<>> /\ ~ret[1].panic
    /\ bidwars.Contests[1].Closed /\ ~bidwars.Contests[1].Options[1].Closed
    /\ ret[1].value.Option = bidwars.Contests[2].Options[1]

\* C9: when the message holds both the random directive and a match of an
\* alias of an open option, in either order, the call returns the
\* alias-matched option, never a random pick.
C9_AliasBeatsRandom ==
    (MatchDone /\ ~ExplicitBidOnly(bidwars, call.reason)
        /\ RandomDirectiveMatches(call.msg) /\ AliasMatches(bidwars, call.msg) # {})
        => ret[1] = Returned([Option |-> EarliestMatchOption(bidwars, call.msg),
                              Reason |-> reasonString(call.reason, call.msg)])

\* The random directive comes before the alias in the message, more than one
\* option is open, and the alias-matched option was returned.
C9_Witness ==
    /\ MatchDone /\ ~ExplicitBidOnly(bidwars, call.reason)
    /\ LiteralAt(RandomWord, call.msg, 0)
    /\ AliasMatches(bidwars, call.msg) # {}
    /\ Cardinality(OpenOptionSet(bidwars)) > 1
    /\ ret[1].value.Option = EarliestMatchOption(bidwars, call.msg)

----------------------------------------------------------------------------
(* Properties of makeChoice.                                               *)

\* The row, read cell by cell, is one of the donor's and has no choice yet.
IsBlankRowOf(row, donor) ==
    /\ Len(row) >= 1 /\ row[1].k = "str"
    /\ ToLower(row[1].s) = ToLower(donor)
    /\ (Len(row) < 4 \/ row[4] = Str(<<>>))

\* The blank rows of the donor among rows i.. of a table, in table order.
RECURSIVE BlankRowsOf(_, _, _)
BlankRowsOf(rows, i, donor) ==
    IF i > Len(rows) THEN <<>>
    ELSE (IF IsBlankRowOf(rows[i], donor) THEN <<rows[i]>> ELSE <<>>) \o BlankRowsOf(rows, i + 1, donor)

\* C2: the patch of makeChoice has one entry per row of the snapshot, in the
\* same order: [nil, nil, nil, shortCode, reason] for the rows of the donor
\* (case-insensitively) that have a blank choice, the empty delta for every
\* other row; and the matched rows are the original values of the stamped rows.
C2_MakeChoicePatch ==
    (call.fn = "makeChoice" /\ ret # <<>>) =>
        LET rows == call.vr.Values
            out  == ret[1]
        IN  /\ Len(out.vr.Values) = Len(rows)
            /\ \A i \in 1..Len(rows) :
                  out.vr.Values[i] =
                      IF IsBlankRowOf(rows[i], call.donor)
                      THEN <<Nil, Nil, Nil, Str(call.choice.Option.ShortCode), Str(call.choice.Reason)>>
                      ELSE <<>>
            /\ out.updatedRows = BlankRowsOf(rows, 1, call.donor)

\* One call stamped a blank row of the donor spelled in another case, and
\* left alone a row of the donor that has a choice and a row of another donor.
C2_Witness ==
    /\ call.fn = "makeChoice" /\ ret # <<>>
    /\ \E i, j, k \in 1..Len(call.vr.Values) :
          /\ ret[1].vr.Values[i] # <<>>
          /\ Contributor(call.vr.Values[i]) # call.donor
          /\ ret[1].vr.Values[j] = <<>>
          /\ Contributor(call.vr.Values[j]) = call.donor
          /\ Choice(call.vr.Values[j]) # <<>>
          /\ ret[1].vr.Values[k] = <<>>
          /\ Contributor(call.vr.Values[k]) = Al
          /\ Choice(call.vr.Values[k]) = <<>>

----------------------------------------------------------------------------
(* Properties of the bot.                                                  *)

\* Row r of the table keeps its choice and its reason in this step.
RowKeepsChoice(r) ==
    /\ r <= Len(table')
    /\ Choice(table'[r]) = Choice(table[r])
    /\ column(table'[r], 4) = column(table[r], 4)

\* C1: under any interleaving of assign calls and appends on the shared table,
\* a row whose choice is not empty is never written again: its choice and its
\* reason stay as they are in every step, also when two assign calls of one
\* donor overlap between their GetTable and their WriteTable.
C1_AssignedRowNeverRewritten ==
    [][\A r \in 1..Len(table) : Choice(table[r]) # <<>> => RowKeepsChoice(r)]_vars

\* The handlers that went through getChoice.
PastGetChoice == {i \in 1..Len(handlers) :
                     handlers[i].kind # "bid" /\ handlers[i].pc \in {"record", "say", "done"}}

\* The handlers that getChoice handed a remembered preference to.
HandedOut == {i \in PastGetChoice : handlers[i].lookup = "hit"}

\* C3: a preference stored by one rememberPref call is handed out by getChoice
\* to at most one donation event: no two events receive the preference of the
\* same call, and the event that receives it gets the choice that call stored.
C3_PrefHandedOutAtMostOnce ==
    /\ \A i, j \in HandedOut : handlers[i].prefId = handlers[j].prefId => i = j
    /\ \A i \in HandedOut :
          /\ handlers[i].prefId \in 1..Len(handlers)
          /\ handlers[handlers[i].prefId].kind = "bid"
          /\ handlers[i].bid = handlers[handlers[i].prefId].bid

\* Two donations of the donor of one remembered preference went through
\* getChoice: one received the preference, the other found the entry gone.
C3_Witness ==
    \E i \in HandedOut : \E j \in PastGetChoice :
        /\ j # i
        /\ handlers[j].lookup = "absent"
        /\ ToLower(handlers[j].ev.Owner) = ToLower(handlers[i].ev.Owner)
        /\ handlers[handlers[i].prefId].pc \in {"say", "done"}

\* getChoice of handler h falls back to the preference cache: the donation
\* reaches the minimum and its message names no option.
FallsBack(h) ==
    /\ h.kind # "bid"
    /\ Value(h.ev) >= minimumDonation
    /\ \A out \in ChoiceFromMessage(bidwars, h.ev.Message, ReasonOf(h.kind)) :
          ~out.panic /\ IsZero(out.value.Option)

\* C5: when getChoice falls back to the preference cache for a donor, it
\* returns the empty Choice when the donor has no entry and when the entry's
\* expiration has passed, returns the stored Choice otherwise, and in every
\* case leaves no entry of that donor in the cache.
C5_FallbackEmptyAndRemoved ==
    [][\A i \in 1..Len(handlers) :
          (handlers[i].pc = "choice" /\ handlers'[i].pc = "record" /\ FallsBack(handlers[i])) =>
              LET donor == ToLower(handlers[i].ev.Owner)
              IN  /\ donor \notin DOMAIN pendingBids'
                  /\ donor \notin DOMAIN pendingBids => handlers'[i].bid = ZeroChoice
                  /\ (donor \in DOMAIN pendingBids /\ now > pendingBids[donor].Expiration)
                        => handlers'[i].bid = ZeroChoice
                  /\ (donor \in DOMAIN pendingBids /\ now <= pendingBids[donor].Expiration)
                        => handlers'[i].bid = pendingBids[donor].Choice]_vars

\* One donation met an expired entry and another met no entry; both got the
\* empty Choice and the donor has no entry now.
C5_Witness ==
    \E i, j \in PastGetChoice :
        /\ handlers[i].lookup = "expired" /\ handlers[i].bid = ZeroChoice
        /\ handlers[j].lookup = "absent" /\ handlers[j].bid = ZeroChoice
        /\ ToLower(handlers[i].ev.Owner) \notin DOMAIN pendingBids

\* The gift sub notices that were dispatched.
GiftSubs == {i \in 1..Len(handlers) :
                handlers[i].kind = "sub" /\ handlers[i].ev.Type = GiftSubscription}

\* The community gift notices that were dispatched.
MassGifts == {i \in 1..Len(handlers) :
                 handlers[i].kind = "sub" /\ handlers[i].ev.Type = CommunityGift}

\* The marks of the donor of handler h that were made before h was dispatched.
MarksSeen(h) == {k \in 1..h.seen : markLog[k].Owner = h.ev.Owner}

\* The time of the latest of them.
LatestMark(h) == markLog[CHOOSE k \in MarksSeen(h) : \A l \in MarksSeen(h) : l <= k].at

\* The row that the donation of handler h makes in the table.
RowOf(h) == TrimRow(<<Str(h.ev.Owner), Str(Description(h.ev)), Num(Value(h.ev)),
                      Str(h.bid.Option.DisplayName), Str(h.bid.Reason)>>)

C10_IgnoredIffWithinCooldownOfLatestMark ==
    \A i \in GiftSubs :
        handlers[i].ignored <=>
            /\ MarksSeen(handlers[i]) # {}
            /\ handlers[i].at - LatestMark(handlers[i]) < massGiftCooldown

\* A second mark restarted the cooldown: a gift sub is ignored although the
\* cooldown of the donor's first mark has passed.
C10_Witness ==
    \E i \in GiftSubs :
        /\ handlers[i].ignored
        /\ \E k \in MarksSeen(handlers[i]) : handlers[i].at - markLog[k].at >= massGiftCooldown

\* The rememberPref calls made so far for the lower-cased name donor.
CallsFor(donor) == {k \in 1..Len(prefLog) : ToLower(prefLog[k].username) = donor}

\* The latest of them.
LatestCall(donor) == prefLog[CHOOSE k \in CallsFor(donor) : \A l \in CallsFor(donor) : l <= k]

\* C11: rememberPref stores the choice with expiration now + bidPrefTTL under
\* the lower-cased name and overwrites an earlier entry: every entry of the
\* cache is that of the latest rememberPref call for its key, whatever the
\* spelling of the name in that call, and a donation of that donor, in any
\* spelling, that falls back to the cache receives the choice of the latest
\* call if and only if that call's expiration has not passed.
C11_RememberPrefOverwrites ==
    /\ [](\A donor \in DOMAIN pendingBids :
            /\ CallsFor(donor) # {}
            /\ pendingBids[donor].Choice = LatestCall(donor).choice
            /\ pendingBids[donor].Expiration = LatestCall(donor).at + bidPrefTTL
            /\ pendingBids[donor].id = LatestCall(donor).id)
    /\ [][\A i \in 1..Len(handlers) :
            (/\ handlers[i].pc = "choice" /\ handlers'[i].pc = "record"
             /\ FallsBack(handlers[i])
             /\ ToLower(handlers[i].ev.Owner) \in DOMAIN pendingBids) =>
                LET last == LatestCall(ToLower(handlers[i].ev.Owner))
                IN  handlers'[i].bid = IF now <= last.at + bidPrefTTL THEN last.choice ELSE ZeroChoice]_vars

\* Two bid commands of names that differ only in case were remembered, with
\* different choices; a donation of the donor then received the choice of
\* the later call at a time when the expiration of the earlier call had
\* passed.
C11_Witness ==
    \E i \in HandedOut : \E k, l \in 1..Len(prefLog) :
        /\ k < l
        /\ prefLog[k].username # prefLog[l].username
        /\ ToLower(prefLog[k].username) = ToLower(prefLog[l].username)
        /\ prefLog[k].choice # prefLog[l].choice
        /\ handlers[i].prefId = prefLog[l].id
        /\ handlers[i].bid = prefLog[l].choice
        /\ handlers[i].ev.Owner # prefLog[l].username
        /\ now > prefLog[k].at + bidPrefTTL

----------------------------------------------------------------------------
(* Properties of AssignFromMessage.                                        *)

AssignDone == call.fn = "AssignFromMessage" /\ ret # <<>>

\* The rows of the table before the call that belong to the donor of the
\* call and have no choice.
DonorBlankRows == {r \in 1..Len(call.table) : IsBlankRowOf(call.table[r], call.donor)}

\* The rows of the table that the call changed.
StampedRows == {r \in 1..Len(call.table) : table[r] # call.table[r]}

\* C12: for every donor name and every table, assign never matches or writes
\* the header row: the patch entry of the header row is the empty delta, the
\* header row is left as it was, and the matched rows are data rows only.
C12_HeaderRowNeverMatched ==
    AssignDone =>
        /\ ret[1].patch # <<>> => ret[1].patch[1] = <<>>
        /\ table[1] = call.table[1]
        /\ ret[1].stats.Count = Cardinality(DonorBlankRows \ {1})

\* The sum of the amounts, in cents, of the rows rs of the table before the call.
RECURSIVE SumOfRows(_)
SumOfRows(rs) ==
    IF rs = {} THEN 0
    ELSE LET r == CHOOSE x \in rs : TRUE
         IN  Cents(call.table[r]) + SumOfRows(rs \ {r})

\* The call has a donor and its message names an option.
Resolves ==
    /\ call.donor # <<>>
    /\ \A out \in ChoiceFromMessage(bidwars, call.message, FromBidCommand) :
          ~out.panic /\ ~IsZero(out.value.Option)

NamesNoOption ==
    /\ call.donor # <<>>
    /\ \A out \in ChoiceFromMessage(bidwars, call.message, FromBidCommand) :
          ~out.panic /\ IsZero(out.value.Option)

\* C14: when the message of a bid command resolves to no option, assign
\* returns the zero UpdateStats and no error, and neither reads nor writes
\* the table, which is left as it was.
C14_UnresolvedIsNoOp ==
    (AssignDone /\ NamesNoOption) =>
        /\ ret[1].stats = ZeroStats
        /\ ~ret[1].err
        /\ ret[1].reads = 0
        /\ ret[1].writes = 0
        /\ table = call.table

\* A call whose message names no option returned, on a table that holds a
\* blank row of its donor.
C14_Witness ==
    /\ AssignDone /\ NamesNoOption
    /\ DonorBlankRows # {}
    /\ table = call.table

\* C15: assign called with the empty donor fails with an error, returns the
\* zero UpdateStats, and neither reads nor writes the table, whatever the
\* message.
C15_EmptyDonorFails ==
    (AssignDone /\ call.donor = <<>>) =>
        /\ ret[1].err
        /\ ret[1].stats = ZeroStats
        /\ ret[1].reads = 0
        /\ ret[1].writes = 0
        /\ table = call.table

\* A call with the empty donor and a message that names an option failed, on
\* a table with a row that has no contributor and no choice.
C15_Witness ==
    /\ AssignDone /\ call.donor = <<>> /\ ret[1].err
    /\ call.message = BidCmd(<<"a">>)
    /\ \E r \in 2..Len(call.table) : call.table[r] = <<>>

----------------------------------------------------------------------------
(* Properties of GetTotals and TotalsForContest.                           *)

\* The columns of the summary that have a name and a total.
Pairs == 1..(IF Len(call.rawNames) < Len(call.rawTotals) THEN Len(call.rawNames) ELSE Len(call.rawTotals))

\* The total cell of column i is not empty and is not a number written as text.
MalformedTotal(i) ==
    /\ call.rawTotals[i] # Str(<<>>)
    /\ (call.rawTotals[i].k # "str" \/ ~ParsesAsFloat(call.rawTotals[i].s))

\* The short codes of the Collection.
ShortCodes == UNION {{bidwars.Contests[i].Options[j].ShortCode : j \in 1..Len(bidwars.Contests[i].Options)}
                     : i \in 1..Len(bidwars.Contests)}

\* Column i has a short code of the Collection as its name and a total.
KnownPair(i) ==
    /\ call.rawNames[i].k = "str" /\ call.rawNames[i].s \in ShortCodes
    /\ call.rawTotals[i] # Str(<<>>)

\* The Totals of the known pairs among columns i.., in the order of the columns.
RECURSIVE KnownTotals(_)
KnownTotals(i) ==
    IF i \notin Pairs THEN <<>>
    ELSE (IF KnownPair(i)
          THEN <<[ShortCode |-> call.rawNames[i].s, Value |-> ParseCents(call.rawTotals[i].s)]>>
          ELSE <<>>) \o KnownTotals(i + 1)

\* C16: GetTotals fails, returning no totals, whenever some non-empty total
\* cell is malformed, whichever name that cell has; otherwise it returns one
\* Total per column whose name is a short code of the Collection and whose
\* total is not empty, and drops the columns of other names.
C16_GetTotalsFailsOnAnyMalformedTotal ==
    (call.fn = "GetTotals" /\ ret # <<>>) =>
        IF \E i \in Pairs : MalformedTotal(i)
        THEN ret[1].err /\ ret[1].totals = <<>>
        ELSE /\ ~ret[1].err
             /\ [i \in 1..Len(ret[1].totals) |->
                    [ShortCode |-> ret[1].totals[i].Option.ShortCode, Value |-> ret[1].totals[i].Value]]
                = KnownTotals(1)

\* The entries of GetTotals for the call's columns whose option is of the
\* call's contest, in the order GetTotals returns them.
ContestEntries ==
    LET contest == bidwars.Contests[call.contest]
        codes == {contest.Options[i].ShortCode : i \in 1..Len(contest.Options)}
    IN  SelectSeq(GetTotals(bidwars, call.rawNames, call.rawTotals).totals,
                  LAMBDA tot : tot.Option.ShortCode \in codes)

\* The place of entry i of seq in the descending order that keeps entries of
\* equal value in the order of seq.
StablePlace(seq, i) ==
    1 + Cardinality({j \in 1..Len(seq) : seq[j].Value > seq[i].Value})
      + Cardinality({j \in 1..(i - 1) : seq[j].Value = seq[i].Value})

\* seq by value descending, entries of equal value in the order of seq.
StableDescending(seq) ==
    [p \in 1..Len(seq) |-> seq[CHOOSE i \in 1..Len(seq) : StablePlace(seq, i) = p]]

\* TotalsForContest has returned without error.
TotalsForContestReturned == call.fn = "TotalsForContest" /\ ret # <<>> /\ ~ret[1].err

\* C17: TotalsForContest returns exactly the GetTotals entries whose option
\* belongs to the contest, by value descending, entries of equal value in
\* the order GetTotals returned them, with the contest's summaryStyle and
\* numberOfWinners.
C17_TotalsForContestStableDescending ==
    TotalsForContestReturned =>
        /\ ret[1].totals.totals = StableDescending(ContestEntries)
        /\ ret[1].totals.summaryStyle = bidwars.Contests[call.contest].SummaryStyle
        /\ ret[1].totals.numberOfWinners = bidwars.Contests[call.contest].NumberOfWinners

----------------------------------------------------------------------------
(* Properties of computeRanks and Describe.                                *)

\* The short codes of a list of options.
CodesOf(opts) == {opts[j].ShortCode : j \in 1..Len(opts)}

\* The open totals of the call with the value v.
OpenWithValue(v) == {k \in 1..Len(openTotals(call.tt)) : openTotals(call.tt)[k].Value = v}

\* The number of open totals of the call with a value strictly greater than v.
OpenAhead(v) == Cardinality({k \in 1..Len(openTotals(call.tt)) : openTotals(call.tt)[k].Value > v})

\* ranks are the buckets of the open totals of the call: values strictly
\* decreasing, every open value in a bucket, each bucket holding all and only
\* the open options of its value, once each, and ranked 1 plus the number of
\* open totals strictly ahead.
RanksOfOpenTotals(ranks) ==
    LET open == openTotals(call.tt)
    IN  /\ \A i, j \in 1..Len(ranks) : i < j => ranks[i].value > ranks[j].value
        /\ \A k \in 1..Len(open) : \E i \in 1..Len(ranks) : ranks[i].value = open[k].Value
        /\ \A i \in 1..Len(ranks) :
              /\ CodesOf(ranks[i].options) = {open[k].Option.ShortCode : k \in OpenWithValue(ranks[i].value)}
              /\ Len(ranks[i].options) = Cardinality(OpenWithValue(ranks[i].value))
              /\ Len(ranks[i].options) > 0
              /\ \A j \in 1..Len(ranks[i].options) : ~ranks[i].options[j].Closed
              /\ ranks[i].rank = 1 + OpenAhead(ranks[i].value)

\* C18: computeRanks yields buckets of strictly decreasing value, each
\* holding all and only the open options with that value, the rank of a
\* bucket being 1 plus the number of open totals of a strictly greater value.
C18_ComputeRanksBuckets ==
    (call.fn = "computeRanks" /\ ret # <<>>) => RanksOfOpenTotals(ret[1])

\* computeRanks has returned ranks 1, 2, 2, 4: a tie of two behind the
\* leader and one option behind the tie, with a closed option left out.
C18_Witness ==
    /\ call.fn = "computeRanks" /\ ret # <<>>
    /\ Len(ret[1]) = 3
    /\ ret[1][1].rank = 1 /\ ret[1][2].rank = 2 /\ ret[1][3].rank = 4
    /\ Len(ret[1][2].options) = 2

\* Describe has returned for Totals of the LAST_PLACE style with at least
\* two open options.
LastPlaceCall ==
    /\ call.fn = "Describe" /\ ret # <<>>
    /\ call.tt.summaryStyle = "LAST_PLACE"
    /\ Len(openTotals(call.tt)) >= 2

\* The values of the open totals of the call.
OpenValues == {openTotals(call.tt)[k].Value : k \in 1..Len(openTotals(call.tt))}

\* The lowest value of the open totals.
LowestValue == CHOOSE v \in OpenValues : \A w \in OpenValues : v <= w

\* The last-place bucket: the open totals of the lowest value.
LastBucket == OpenWithValue(LowestValue)

\* The value of the second-lowest bucket less the lowest value, 0 if all
\* open totals are tied.
SecondLowestDiff ==
    LET above == {v \in OpenValues : v > LowestValue}
    IN  IF above = {} THEN 0 ELSE (CHOOSE v \in above : \A w \in above : v <= w) - LowestValue

\* The orders in which the members of S can be listed.
RECURSIVE Perms(_)
Perms(S) == IF S = {} THEN {<<>>} ELSE UNION {{<<x>> \o p : p \in Perms(S \ {x})} : x \in S}

\* The generic last-place messages: the members of the last-place bucket in
\* some order, behind "Tie for last place: " if they are several and behind
\* "Last place: " if there is one, with the amount of SecondLowestDiff.
GenericMessages ==
    {(IF Cardinality(LastBucket) > 1 THEN <<"T","i","e"," ","f","o","r"," ","l","a","s","t"," ","p","l","a","c","e",":"," ">> ELSE <<"L","a","s","t"," ","p","l","a","c","e",":"," ">>)
     \o JoinNames([i \in 1..Len(order) |-> openTotals(call.tt)[order[i]].Option.DisplayName])
     \o <<" ","(","d","o","w","n"," ","b","y"," ">> \o CentsString(SecondLowestDiff) \o <<")">>
     : order \in Perms(LastBucket)}

\* The subject of the call is an open total of the call.
SubjectRanked ==
    \E k \in 1..Len(openTotals(call.tt)) : openTotals(call.tt)[k].Option.ShortCode = call.lastBid.ShortCode

\* The subject of the call is in the last-place bucket.
SubjectInLast == \E k \in LastBucket : openTotals(call.tt)[k].Option.ShortCode = call.lastBid.ShortCode

\* The ranks the prefix can name: the rank of the subject, and any rank for
\* a subject that has none.
SubjectRanks ==
    IF SubjectRanked
    THEN {1 + OpenAhead(openTotals(call.tt)[k].Value) :
            k \in {k \in 1..Len(openTotals(call.tt)) :
                     openTotals(call.tt)[k].Option.ShortCode = call.lastBid.ShortCode}}
    ELSE 1..(Len(call.tt.totals) + 1)

\* The messages g prefixed by "<subject> is currently #<rank>. ".
Prefixed(g) ==
    {call.lastBid.DisplayName \o <<" ","i","s"," ","c","u","r","r","e","n","t","l","y"," ","#">> \o IntString(r) \o <<".", " ">> \o g
     : r \in SubjectRanks}

\* The "still in last place" variant for the subject.
StillInLastPlace ==
    call.lastBid.DisplayName \o <<" ","i","s"," ","s","t","i","l","l"," ","i","n"," ","l","a","s","t"," ","p","l","a","c","e"," ","(","d","o","w","n"," ","b","y"," ">>
    \o CentsString(SecondLowestDiff) \o <<")"," ","u","s","e","d","S","h","a","m","e">>

\* The cases of C19 that do not depend on the subject having a rank.
LastPlaceCases ==
    /\ IsZero(call.lastBid) => ret[1] \in GenericMessages
    /\ (SubjectInLast /\ Cardinality(LastBucket) = 1) =>
          ret[1] = StillInLastPlace /\ ret[1] \notin GenericMessages
    /\ (SubjectInLast /\ Cardinality(LastBucket) > 1) => ret[1] \in GenericMessages

C20_LastPlaceNamesLowestBucket ==
    LastPlaceCall =>
        \/ ret[1] \in GenericMessages
        \/ \E g \in GenericMessages : ret[1] \in Prefixed(g)
        \/ Cardinality(LastBucket) = 1 /\ SubjectInLast /\ ret[1] = StillInLastPlace

\* Describe has answered for a tie of two for last place, behind two buckets.
C20_Witness ==
    /\ LastPlaceCall
    /\ Cardinality(LastBucket) = 2
    /\ Cardinality(OpenValues) = 3
    /\ SecondLowestDiff = 6

\* Describe has returned for Totals of the given style with at least two
\* open options.
StyleCall(style) ==
    /\ call.fn = "Describe" /\ ret # <<>>
    /\ call.tt.summaryStyle = style
    /\ Len(openTotals(call.tt)) >= 2

\* The display names of the open totals listed in order, joined by ", ".
NamesIn(order) == JoinNames([i \in 1..Len(order) |-> openTotals(call.tt)[order[i]].Option.DisplayName])

\* The orders of the open totals of S in which no value is behind a lower one.
DescendingOrders(S) ==
    {p \in Perms(S) : \A i, j \in 1..Len(p) :
        i < j => openTotals(call.tt)[p[i]].Value >= openTotals(call.tt)[p[j]].Value}

\* The highest value of the open totals.
HighestValue == CHOOSE v \in OpenValues : \A w \in OpenValues : v >= w

\* The first-place bucket: the open totals of the highest value.
TopBucket == OpenWithValue(HighestValue)

\* The highest value less the value of the second bucket, 0 if all open
\* totals are tied.
TopDiff ==
    LET below == {v \in OpenValues : v < HighestValue}
    IN  IF below = {} THEN 0 ELSE HighestValue - (CHOOSE v \in below : \A w \in below : v >= w)

\* The generic first-place message that lists the open totals of order.
FirstPlaceGeneric(order) ==
    (IF Len(order) > 1 THEN <<"T","i","e"," ","f","o","r"," ","f","i","r","s","t"," ","p","l","a","c","e",":"," ">> ELSE <<"F","i","r","s","t"," ","p","l","a","c","e",":"," ">>)
    \o NamesIn(order) \o <<" ","(","u","p"," ","b","y"," ">> \o CentsString(TopDiff) \o <<")">>

\* The generic first-place messages: the members of the top bucket in some order.
FirstPlaceMessages == {FirstPlaceGeneric(order) : order \in Perms(TopBucket)}

\* The subject of the call is in the top bucket.
SubjectInTop == \E k \in TopBucket : openTotals(call.tt)[k].Option.ShortCode = call.lastBid.ShortCode

\* The "is in first place" variant for the subject.
InFirstPlace ==
    call.lastBid.DisplayName \o <<" ","i","s"," ","i","n"," ","f","i","r","s","t"," ","p","l","a","c","e"," ","(","u","p"," ","b","y"," ">>
    \o CentsString(TopDiff) \o <<")"," ","u","s","e","d","U">>

\* The message is a first-place message over the open totals of S: generic,
\* prefixed by the rank of the subject, or the "is in first place" variant.
IsFirstPlaceMessageOver(S) ==
    \/ \E order \in Perms(S) :
          ret[1] = FirstPlaceGeneric(order) \/ ret[1] \in Prefixed(FirstPlaceGeneric(order))
    \/ Cardinality(S) = 1 /\ SubjectInTop /\ ret[1] = InFirstPlace

\* The winners: the open totals with fewer than numberOfWinners open totals
\* strictly ahead of them, which are the whole buckets from the top up to
\* the first at which the count reaches numberOfWinners.
WinnerSet ==
    {k \in 1..Len(openTotals(call.tt)) : OpenAhead(openTotals(call.tt)[k].Value) < call.tt.numberOfWinners}

\* "Current top <N>: <names>"
CurrentTop(names) ==
    <<"C","u","r","r","e","n","t"," ","t","o","p"," ">> \o IntString(call.tt.numberOfWinners) \o <<":", " ">> \o names

\* C21: under WINNERS the names listed are those of whole rank buckets from
\* the top, up to the first bucket at which the count reaches N; a tied
\* bucket is never cut, and every open option is listed when fewer than N
\* are open. (With N = 1 the list is that of the first-place message.)
C21_WinnersAreWholeBuckets ==
    StyleCall("WINNERS") =>
        IF call.tt.numberOfWinners = 1
        THEN IsFirstPlaceMessageOver(WinnerSet)
        ELSE \E order \in DescendingOrders(WinnerSet) :
                \/ ret[1] = CurrentTop(NamesIn(order))
                \/ ret[1] \in Prefixed(CurrentTop(NamesIn(order)))

\* Describe has listed three names as the top 2: a tie of two for rank 2,
\* with a fourth option left out.
C21_Witness ==
    /\ StyleCall("WINNERS")
    /\ call.tt.numberOfWinners = 2
    /\ Cardinality(WinnerSet) = 3
    /\ Len(openTotals(call.tt)) = 4

\* The message is "Current top <N>: <names>", prefixed by the subject's rank
\* for a subject that is among the open totals.
IsCurrentTopMessage ==
    \E order \in DescendingOrders(WinnerSet) :
        /\ ret[1] = CurrentTop(NamesIn(order)) \/ ret[1] \in Prefixed(CurrentTop(NamesIn(order)))
        /\ IsZero(call.lastBid) => ret[1] = CurrentTop(NamesIn(order))
        /\ (~IsZero(call.lastBid) /\ SubjectRanked) => ret[1] \in Prefixed(CurrentTop(NamesIn(order)))

\* C22 as stated: under WINNERS, for every N >= 1 and at least two open
\* options, Describe renders "Current top <N>: <names>", prefixed by
\* "<subject> is currently #<rank>. " for a subject among the open totals.
C22_WinnersRendersCurrentTop ==
    (StyleCall("WINNERS") /\ call.tt.numberOfWinners >= 1) => IsCurrentTopMessage

\* C22, amended: the above for every N >= 2; with N = 1 Describe renders the
\* FIRST_PLACE message.
C22_WinnersRendersCurrentTopFromTwo ==
    StyleCall("WINNERS") =>
        /\ call.tt.numberOfWinners >= 2 => IsCurrentTopMessage
        /\ call.tt.numberOfWinners = 1 => IsFirstPlaceMessageOver(TopBucket)

\* Describe has answered under WINNERS with N = 2 for a subject of rank 3.
C22_Witness ==
    /\ StyleCall("WINNERS")
    /\ call.tt.numberOfWinners = 2
    /\ SubjectRanked /\ SubjectRanks = {3}

\* The cases of C23 that do not depend on the subject having a rank.
FirstPlaceCases ==
    /\ IsFirstPlaceMessageOver(TopBucket)
    /\ IsZero(call.lastBid) => ret[1] \in FirstPlaceMessages
    /\ (SubjectInTop /\ Cardinality(TopBucket) = 1) =>
          ret[1] = InFirstPlace /\ ret[1] \notin FirstPlaceMessages
    /\ (SubjectInTop /\ Cardinality(TopBucket) > 1) => ret[1] \in FirstPlaceMessages

AllPart(k) ==
    LET t == openTotals(call.tt)[k]
    IN  t.Option.DisplayName \o <<":", " ">> \o CentsString(t.Value)
        \o (IF t.Value < HighestValue
            THEN <<" ","(","d","o","w","n"," ","b","y"," ">> \o CentsString(HighestValue - t.Value) \o <<")">>
            ELSE <<>>)

\* C24: under ALL, Describe lists every open option once, in the order of
\* the totals, as "<name>: <value>", with " (down by <max - value>)" behind
\* exactly the options below the maximum open value, whatever the subject.
C24_AllListsEveryOpenOption ==
    (call.fn = "Describe" /\ ret # <<>> /\ call.tt.summaryStyle = "ALL") =>
        ret[1] = JoinNames([k \in 1..Len(openTotals(call.tt)) |-> AllPart(k)])

\* name occurs in msg.
Contains(msg, name) == \E i \in 0..(Len(msg) - Len(name)) : SubSeq(msg, i + 1, i + Len(name)) = name

\* The display names of the closed options of the call's totals.
ClosedNames == {call.tt.totals[k].Option.DisplayName : k \in {k \in 1..Len(call.tt.totals) : call.tt.totals[k].Option.Closed}}

----------------------------------------------------------------------------
(* Properties of the bot's replies.                                        *)

\* The chat messages sent for handler i.
RepliesTo(i) == {k \in 1..Len(chat) : chat[k].h = i}

\* The attribution of the event of handler i was left unresolved: getChoice
\* returned the zero Choice for a donation, bits or sub event, or the bid
\* command was handled to the end and named no option.
UnresolvedEvent(i) ==
    /\ IsZero(handlers[i].bid.Option)
    /\ ~handlers[i].err
    /\ IF handlers[i].kind = "bid" THEN handlers[i].pc = "done"
       ELSE handlers[i].pc \in {"record", "say", "done"} /\ ~handlers[i].ignored

PastAssign(i) ==
    /\ handlers[i].kind = "bid"
    /\ handlers[i].pc \in {"say", "done"}
    /\ ~IsZero(handlers[i].bid.Option)

\* The preferences that handler i has stored.
StoredBy(i) == {k \in 1..Len(prefLog) : prefLog[k].id = i}

\* C29: when a ledger call fails while an event is handled, the failure is
\* noted, no chat reply is sent for the event, and no ledger call is made
\* twice for it; after a failed write AssignFromMessage has returned zero
\* stats, and dispatchBidCommand has stored nothing.
C29_LedgerFailureIsSilentAndNotRetried ==
    \A i \in 1..Len(handlers) :
        /\ handlers[i].calls.append <= 1 /\ handlers[i].calls.read <= 1
        /\ handlers[i].calls.write <= 1 /\ handlers[i].calls.totals <= 1
        /\ handlers[i].failed # "" =>
              /\ handlers[i].err
              /\ handlers[i].pc = "done"
              /\ RepliesTo(i) = {}
        /\ handlers[i].failed \in {"read", "write"} =>
              /\ IsZero(handlers[i].bid.Option)
              /\ handlers[i].count = 0 /\ handlers[i].total = 0
              /\ StoredBy(i) = {}

\* A write of assign has failed after a donation of the donor was appended,
\* and an append has failed.
C29_Witness ==
    \E i, j \in 1..Len(handlers) :
        /\ handlers[i].failed = "write"
        /\ handlers[j].failed = "append"

\* C30: dispatchBidCommand stores a preference for the donor exactly when
\* the command resolves to an option and assign stamped no row; when assign
\* stamped at least one row it stores none.
C30_PrefStoredIffNoRowStamped ==
    \A i \in 1..Len(handlers) :
        IF PastAssign(i)
        THEN (StoredBy(i) # {}) <=> (handlers[i].count = 0)
        ELSE StoredBy(i) = {}

\* The calls of say, among the calls m..n of the log, that sent their message.
SentIn(m, n) == {k \in m..n : ret[k].sent}

\* C26: say sends a message only when the limiter grants a token at the
\* call; a message that is denied is dropped for good, the chat holding
\* exactly the messages of the granted calls, in the order of the calls; and
\* the messages sent in any span of time are at most chatBucketSize plus one
\* for every chatCooldown that elapsed in the span.
C26_SayIsRateLimitedAndDrops ==
    call.fn = "say" =>
        /\ Len(chat) = Cardinality(SentIn(1, Len(ret)))
        /\ \A k \in 1..Len(chat) :
              /\ chat[k].h \in SentIn(1, Len(ret))
              /\ Cardinality(SentIn(1, chat[k].h)) = k
        /\ \A m, n \in 1..Len(ret) :
              m <= n => Cardinality(SentIn(m, n))
                           <= chatBucketSize + (ret[n].at - ret[m].at) \div chatCooldown

\* The bucket was emptied, a call was denied, and after a refill a later
\* call sent its message while the denied one stayed dropped.
C26_Witness ==
    /\ call.fn = "say"
    /\ \E m, n \in 1..Len(ret) :
          /\ m < n /\ ~ret[m].sent /\ ret[n].sent
          /\ Cardinality(SentIn(1, m)) = chatBucketSize
          /\ \A k \in 1..Len(chat) : chat[k].h # m

\* The positions at which a handler has a ledger call or a chat send in
\* progress: Append, GetTable, WriteTable, and the totals read with the send.
NetworkPcs == {"record", "assign", "write", "say"}

\* The positions between the lock and the return of the four functions that
\* take b.mu.
LockedPcs == {"marking", "looking", "lookup", "remember"}

\* C27: no task holds b.mu while a ledger call or a chat send of its is in
\* progress; the mutex is held only between the lock and the return of the
\* functions that read or write the two maps, and a writer holds it alone.
C27_NoNetworkCallUnderMutex ==
    \A i \in 1..Len(handlers) :
        /\ handlers[i].pc \in NetworkPcs => handlers[i].mu = ""
        /\ handlers[i].mu # "" => handlers[i].pc \in LockedPcs
        /\ handlers[i].mu = "w" =>
              \A j \in 1..Len(handlers) : j # i => handlers[j].mu = ""

\* A handler holds the mutex for writing while another, which held it
\* before for its lookup, has its ledger call in progress.
C27_Witness ==
    \E i, j \in 1..Len(handlers) :
        /\ handlers[i].mu = "w"
        /\ handlers[j].pc \in NetworkPcs /\ handlers[j].lookup # "none"

----------------------------------------------------------------------------
(* Properties of events below the minimum.                                 *)

\* The donation, bits or sub events that are worth less than minimumDonation.
BelowMinimum == {i \in 1..Len(handlers) :
                    handlers[i].kind # "bid" /\ Value(handlers[i].ev) < minimumDonation}

----------------------------------------------------------------------------
(* Properties of Parse.                                                    *)

\* The places of the options of a Collection: contest and position.
OptionPlaces(c) ==
    {p \in (1..Len(c.Contests)) \X (1..MaxOptions) : p[2] <= Len(c.Contests[p[1]].Options)}

\* C32: in every Collection that Parse accepts, the short codes of the
\* options are pairwise distinct across all contests.
C32_ParsedShortCodesAreDistinct ==
    (call.fn = "Parse" /\ ret # <<>> /\ ~ret[1].err) =>
        \A p, q \in OptionPlaces(bidwars) :
            p # q => bidwars.Contests[p[1]].Options[p[2]].ShortCode
                        # bidwars.Contests[q[1]].Options[q[2]].ShortCode

----------------------------------------------------------------------------
(* Further properties of ChoiceFromMessage.                                *)

\* C33: whenever a message that is not empty is supplied outside
\* explicit-bid-only mode and the call resolves no option, it returns
\* normally, with the empty Option and a reason string that is not empty,
\* for every ChoiceReason and every Collection.
C33_UnresolvedHasReason ==
    (MatchDone /\ call.msg # <<>> /\ ~ExplicitBidOnly(bidwars, call.reason)
        /\ (ret[1].panic \/ IsZero(ret[1].value.Option)))
        => /\ ~ret[1].panic
           /\ ret[1].value.Option = ZeroOption
           /\ ret[1].value.Reason # <<>>

\* The call of FindStringIndex has returned.
AliasDone == call.fn = "FindStringIndex" /\ ret # <<>>

\* The offsets at which the text of the alias occurs in the message, in any
\* letter case.
Occurrences ==
    {i \in 0..Len(call.msg) :
        /\ i + Len(call.alias) <= Len(call.msg)
        /\ EqualFold(SubSeq(call.msg, i + 1, i + Len(call.alias)), call.alias)}

\* The characters next to the occurrence at offset i: before and after it.
Neighbours(i) ==
    (IF i >= 1 THEN {call.msg[i]} ELSE {}) \cup
    (IF i + Len(call.alias) < Len(call.msg) THEN {call.msg[i + Len(call.alias) + 1]} ELSE {})

\* Letters and digits: those of ASCII, and the bytes of letters outside it.
LettersAndDigits == Range(LowerChars) \cup Range(UpperChars) \cup Range(DigitChars) \cup Range(EAcute)

\* Spaces and punctuation.
SpacesAndPunctuation == {" ", "!", "_"}

\* The letters, digits and underscore of ASCII, written out.
AsciiWord == Range(LowerChars) \cup Range(UpperChars) \cup Range(DigitChars) \cup {"_"}

\* C34 as stated: an alias whose text occurs only inside longer runs of
\* letters or digits does not match, and an alias that occurs delimited by
\* spaces, punctuation or the ends of the message matches, in any letter case.
C34_AliasMatchesWholeWords ==
    AliasDone =>
        /\ (\A i \in Occurrences : Neighbours(i) \cap LettersAndDigits # {}) => ret[1] = -1
        /\ (\E i \in Occurrences : Neighbours(i) \subseteq SpacesAndPunctuation) => ret[1] >= 0

\* C34, amended: the characters that make a run are the letters and digits
\* of ASCII and the underscore.  The alias matches exactly when its text
\* occurs, in any letter case, with no such character right before and right
\* after it, and the match reported is the leftmost such occurrence.
C34_AliasMatchesAsciiWholeWords ==
    AliasDone =>
        LET whole == {i \in Occurrences : Neighbours(i) \cap AsciiWord = {}}
        IN  /\ whole = {} => ret[1] = -1
            /\ whole # {} => ret[1] \in whole /\ \A i \in whole : ret[1] <= i

\* The text of the alias occurs inside a run with a digit and, further on,
\* in the other letter case between punctuation; the second one matched.
C34_Witness ==
    /\ AliasDone
    /\ \E i, j \in Occurrences :
          /\ i < j
          /\ Neighbours(i) \cap Range(DigitChars) # {}
          /\ Neighbours(j) \subseteq {"!", " "}
          /\ SubSeq(call.msg, j + 1, j + Len(call.alias)) # call.alias
          /\ ret[1] = j

----------------------------------------------------------------------------
(* Properties of the donation pollers.                                     *)

\* The poll has handed its events to the callback.
PollDone == call.fn = "poll" /\ ret # <<>>

\* The events are in the order they were made in, oldest first.
Chronological(evs) == \A i, j \in 1..Len(evs) : i < j => evs[i].at <= evs[j].at

\* What the cursor of the service is read from: the time or the id.
MarkOf(ev) == IF call.service = "streamelements" THEN ev.at ELSE ev.id

\* The response lists its donations newest first.
NewestFirst(resp) == \A i, j \in 1..Len(resp) : i < j => resp[i].at >= resp[j].at

----------------------------------------------------------------------------
(* Properties of Event.Value.                                              *)

\* The base value of a sub of a tier as TestValue has it: 500, 1000 and 2500
\* cents for the tiers 1, 2 and 3, nothing for an event of no tier.
TestedBaseValue(tier) ==
    CASE tier = SubTier1 -> 500
      [] tier = SubTier2 -> 1000
      [] tier = SubTier3 -> 2500
      [] OTHER -> 0

\* C36: Event.Value() is the base value of the tier times SubMonths times
\* SubCount, plus the bits, plus the cash, in cents, the base value being 500
\* for a tier 1 sub, 1000 for a tier 2 sub and 2500 for a tier 3 sub; an
\* event of no tier is worth its bits and cash.
C36_ValueIsTierTimesMonthsTimesCount ==
    (call.fn = "Value" /\ ret # <<>> /\ call.ev.SubTier # SubTierPrime) =>
        ret[1] = TestedBaseValue(call.ev.SubTier) * call.ev.SubMonths * call.ev.SubCount
                    + call.ev.Bits + call.ev.Cash

----------------------------------------------------------------------------
(* Properties of a bid command racing a donation.                          *)

\* One bid command that resolved to an option and one donation of the same
\* donor, worth the minimum or more and naming no option, were dispatched,
\* in this order or the other, and both were handled to the end.
BidAndDonationDone(b, d) ==
    /\ Len(handlers) = 2 /\ {b, d} = {1, 2}
    /\ handlers[b].kind = "bid" /\ handlers[d].kind # "bid"
    /\ handlers[b].pc = "done" /\ handlers[d].pc = "done"
    /\ ~handlers[b].err /\ ~IsZero(handlers[b].bid.Option)
    /\ Value(handlers[d].ev) >= minimumDonation /\ handlers[d].ev.Message = <<>>
    /\ EqualFold(handlers[b].ev.Owner, handlers[d].ev.Owner)

\* C37: when a bid command that resolves to an option and one qualifying
\* donation of the same donor are handled within bidPrefTTL, then in every
\* interleaving of the two handlers the row of the donation ends up with
\* that option as its choice, stamped by assign or recorded with the
\* remembered preference.
C37_DonationAttributedInEveryInterleaving ==
    \A b, d \in 1..Len(handlers) :
        BidAndDonationDone(b, d) =>
            /\ Len(table) = 2
            /\ Choice(table[2]) \in {handlers[b].bid.Option.ShortCode,
                                     handlers[b].bid.Option.DisplayName}

----------------------------------------------------------------------------
(* Properties of assign calls of several donors.                           *)

\* Handler i takes the step of AssignFromMessage that writes the table.
AssignWrites(i) ==
    /\ i <= Len(handlers)
    /\ handlers[i].kind = "bid"
    /\ handlers[i].pc = "write"
    /\ handlers'[i].pc = "reply"

\* The rows of the table that are not of the donor of handler i.
RowsOfOthers(i) ==
    {r \in 1..Len(table) : ~EqualFold(Contributor(table[r]), handlers[i].ev.Owner)}

\* C38: the write of an assign for a donor leaves every row of another
\* contributor as it is, in any interleaving with appends and with the
\* assign calls of other donors: also the rows appended after the snapshot
\* was read and the rows stamped for other donors since then.
C38_AssignLeavesRowsOfOthers ==
    [][\A i \in 1..Len(handlers) :
          AssignWrites(i) =>
              /\ Len(table') = Len(table)
              /\ \A r \in RowsOfOthers(i) : table'[r] = table[r]]_vars

\* An assign for bob has just stamped the row of bob from a snapshot older
\* than the table: a row of al has been appended since the snapshot, and the
\* row of al that the snapshot holds blank has been stamped.
C38_Witness ==
    \E i \in 1..Len(handlers) :
        /\ handlers[i].kind = "bid" /\ handlers[i].pc = "reply"
        /\ handlers[i].ev.Owner = Bob
        /\ handlers[i].count = 1
        /\ LET snap == handlers[i].snapshot[1].Values
           IN  /\ Len(table) > Len(snap)
               /\ Contributor(table[Len(table)]) = Al
               /\ \E r \in 1..Len(snap) :
                     /\ Contributor(snap[r]) = Al
                     /\ Choice(snap[r]) = <<>>
                     /\ Choice(table[r]) = <<"B">>
               /\ \E r \in 1..Len(snap) :
                     /\ ShouldUpdate(snap[r], Bob)
                     /\ Choice(table[r]) = <<"A">>

----------------------------------------------------------------------------
(* Properties of the choice cells of the tracker sheet.                    *)

\* The options of every contest of the bid war data.
CatalogOptions ==
    UNION {{bidwars.Contests[k].Options[j] : j \in 1..Len(bidwars.Contests[k].Options)}
           : k \in 1..Len(bidwars.Contests)}

\* C39: every choice cell the bot has written that is not empty, be it of a
\* row appended with a resolved choice or of a row stamped by assign, holds
\* the ShortCode of an option of the bid war data, so that one option is
\* always recorded under one key.
C39_ChoiceCellsHoldShortCodes ==
    \A r \in 2..Len(table) :
        Choice(table[r]) # <<>> => \E o \in CatalogOptions : Choice(table[r]) = o.ShortCode

----------------------------------------------------------------------------
(* Properties of the tip file Watcher.                                     *)

\* The IDs of the events sent on C so far.
EmittedIDs == {ret[k].ID : k \in 1..Len(ret)}

\* C40: the Watcher sends an event for a parsed line exactly when the ID of
\* the line was not seen before: the IDs seen are those of the lines that
\* were in the file when NewWatcher read it, none of which is ever sent,
\* and those sent; over any number of reads of the whole file each ID is
\* sent at most once, and the events of one read are in the order of their
\* lines.
C40_EmittedIffUnseen ==
    call.fn = "tipfile" =>
        /\ call.processedIDs = call.initialIDs \cup EmittedIDs
        /\ call.initialIDs \cap EmittedIDs = {}
        /\ \A j, k \in 1..Len(ret) : ret[j].ID = ret[k].ID => j = k
        /\ \A j, k \in 1..Len(ret) :
              (j < k /\ ret[j].read = ret[k].read) => ret[j].line < ret[k].line

\* C40 without the half that a line whose ID was not seen before is sent.
C40_EmittedOnlyIfUnseen ==
    call.fn = "tipfile" =>
        /\ call.initialIDs \cup EmittedIDs \subseteq call.processedIDs
        /\ call.initialIDs \cap EmittedIDs = {}
        /\ \A j, k \in 1..Len(ret) : ret[j].ID = ret[k].ID => j = k
        /\ \A j, k \in 1..Len(ret) :
              (j < k /\ ret[j].read = ret[k].read) => ret[j].line < ret[k].line

====
